---- MODULE Spec2Model ----
(***************************************************************************)
(* Terrain heightmap pipeline of terrain-to-3d (src/src/lib/openscad.ts): *)
(* slippy-map tile math, concurrent Terrarium tile fetch and decode,      *)
(* stitching, cropping, normalisation and resizing in generateHeightmap.  *)
(*                                                                         *)
(* Specifications: Spec (one generateHeightmap run), SpecProjection       *)
(* (lonToX and xToLon in floating point), SpecDecode (one Terrarium       *)
(* pixel), SpecCalls (several invocations in flight), SpecDat             *)
(* (heightmapToDat).                                                       *)
(*                                                                         *)
(* Number representation.  Angles are integers in millidegrees, areas in  *)
(* km, elevations in 1/256 m (every Terrarium elevation is a multiple of  *)
(* 1/256 m and exact in a Float32Array).  The transcendental functions of *)
(* the source (Math.cos, Math.log/tan, Math.atan/exp) are tabulated at    *)
(* the arguments the model's inputs reach.  The non-finite numbers of     *)
(* JavaScript (NaN, Infinity, -Infinity) are kept as three integers       *)
(* outside the range of every finite value of the model.                  *)
(***************************************************************************)
EXTENDS Integers, Sequences, FiniteSets, TLC

VARIABLES
    params,     \* TerrainParams of the invocation
    terrain,    \* which tile contents the tile server holds
    pc,         \* position of generateHeightmap
    progress,   \* onProgress notifications received so far, in order
    full,       \* the stitched raster (Float32Array), index -> elevation
    requests,   \* tile requests issued so far, in order: <<z, x, y>>
    tiles,      \* per requested tile: state of its fetchAndDecodeTile promise chain
    allState,   \* the Promise.all promise: [st, reason]
    firstFail,  \* history: the tile whose promise rejected first, <<>> while none did
    copyOrder,  \* history: the tiles whose callback ran, in the order they ran
    written,    \* history: per tile, the raster indices its callback wrote
    crop,       \* result of the crop stage: [cw, ch, cropped, lo, hi]
    u8,         \* normalised grid (Uint8Array)
    heightmap,  \* resized grid (Uint8Array of outputPx * outputPx)
    result,     \* the HeightmapResult the promise resolved with, or NoResult
    error       \* the error the promise rejected with, or NoError

vars == <<params, terrain, pc, progress, full, requests, tiles, allState,
          firstFail, copyOrder, written, crop, u8, heightmap, result, error>>

\* State of the specifications of single functions and of concurrent
\* invocations, which the run of the specification Spec does not touch.
VARIABLES
    proj,       \* a projection round trip: [stage, lon, zoom, x, west, east]
    pixel,      \* a decoded pixel: [stage, rgba, elev]
    calls,      \* concurrent generateHeightmap invocations, per invocation its state
    dat         \* a heightmapToDat call: [stage, heightmap, width, height, text]

\* State of the application around the pipeline: the App component, the
\* useOpenscadWorker hook with its workers and animation frames, the worker
\* script, and a parseDatHeightmap call.
VARIABLES
    app,        \* the App component: its React state and the Step 1 run in flight
    hook,       \* useOpenscadWorker: its React state and refs
    workers,    \* the Worker objects created so far, per worker its state
    frames,     \* the animation-frame callbacks requested and not yet run
    event,      \* the handler that ran last and what it did
    wk,         \* the worker script: per request its position, and the messages posted
    pd          \* a parseDatHeightmap call: [stage, content, outcome]

appVars == <<app, hook, workers, frames, event, wk, pd>>

aside == <<proj, pixel, calls, dat, appVars>>

\* The value of a variable that the specification at hand does not use.
NotInUse == "not in use"

allVars == <<vars, aside>>

AppIdle ==
    /\ app = NotInUse /\ hook = NotInUse /\ workers = NotInUse /\ frames = NotInUse
    /\ event = NotInUse /\ wk = NotInUse /\ pd = NotInUse

AsideIdle ==
    /\ proj = NotInUse /\ pixel = NotInUse /\ calls = NotInUse /\ dat = NotInUse
    /\ AppIdle

\* No generateHeightmap run is part of the specification at hand.
PipelineIdle ==
    /\ params = NotInUse /\ terrain = NotInUse /\ pc = NotInUse /\ progress = NotInUse
    /\ full = NotInUse /\ requests = NotInUse /\ tiles = NotInUse /\ allState = NotInUse
    /\ firstFail = NotInUse /\ copyOrder = NotInUse /\ written = NotInUse
    /\ crop = NotInUse /\ u8 = NotInUse /\ heightmap = NotInUse /\ result = NotInUse
    /\ error = NotInUse

-----------------------------------------------------------------------------
(* Bounds of the model *)

\* Tile edge in pixels.  The source uses 256; the model scales the tile down.
TS == 2

\* outputPx ranges over 1..MaxOutputPx.
MaxOutputPx == 2

-----------------------------------------------------------------------------
(* JavaScript numbers that are not finite *)

Infinity == 2^30
NegInfinity == 0 - Infinity
NaN == Infinity + 1

IsNaN(v) == v = NaN
IsFiniteNum(v) == v > NegInfinity /\ v < Infinity

\* Math.floor(a / b) and Math.round(a / b) for integers a and b > 0.
\* Math.round rounds halves up: floor(q + 1/2).
Floor(a, b) == a \div b
Round(a, b) == (2 * a + b) \div (2 * b)

\* ToIndex of a typed-array length: NaN becomes 0.
ToLength(v) == IF IsNaN(v) THEN 0 ELSE v

-----------------------------------------------------------------------------
(* Inputs *)

\* TerrainParams without outputPx: centre in millidegrees, area in km, zoom.
Sites ==
    { [centerLat |-> 0,     centerLon |-> 0,      areaKm |-> 10000, zoom |-> 2],
      [centerLat |-> 30000, centerLon |-> 45000,  areaKm |-> 5000,  zoom |-> 2],
      [centerLat |-> 30000, centerLon |-> 45000,  areaKm |-> 20,    zoom |-> 2],
      [centerLat |-> 30000, centerLon |-> 0,      areaKm |-> 5000,  zoom |-> 2],
      [centerLat |-> 30000, centerLon |-> 170000, areaKm |-> 5000,  zoom |-> 2],
      [centerLat |-> 65000, centerLon |-> 90000,  areaKm |-> 5000,  zoom |-> 1],
      [centerLat |-> 80000, centerLon |-> 0,      areaKm |-> 5000,  zoom |-> 1] }

ParamSet ==
    { [centerLat |-> s.centerLat, centerLon |-> s.centerLon, areaKm |-> s.areaKm,
       outputPx |-> px, zoom |-> s.zoom] : s \in Sites, px \in 1..MaxOutputPx }

\* Tile contents held by the tile server.
Terrains == {"flat", "relief"}

\* Statuses of a non-success HTTP response.
ErrorStatuses == {404, 503}

-----------------------------------------------------------------------------
(* Slippy-map tile math *)

\* Math.cos(centerLat * PI / 180) in 1/10000.
CosTable(lat) ==
    CASE lat = 0     -> 10000
      [] lat = 30000 -> 8660
      [] lat = 65000 -> 4226
      [] lat = 80000 -> 1736

\* (1 - Math.log(Math.tan(r) + 1 / Math.cos(r)) / PI) / 2 in 1/1000000, rounded
\* down.  For |lat| > 90 degrees the argument of Math.log is negative: NaN.
MercatorFraction(lat) ==
    IF lat > 90000 \/ lat < 0 - 90000 THEN NaN
    ELSE CASE lat = 0 - 44915 -> 639941
           [] lat = 7543      -> 478986
           [] lat = 29911     -> 412860
           [] lat = 30089     -> 412289
           [] lat = 42543     -> 369178
           [] lat = 44915     -> 360058
           [] lat = 52457     -> 328242
           [] lat = 57543     -> 303570
           [] lat = 87457     -> 0 - 106041

\* (180 / PI) * Math.atan(sinh(PI - 2 * PI * q / 4)) in millidegrees,
\* for y / n = q / 4.
GudermannTable(q) ==
    CASE q = 0 - 4 -> 89991
      [] q = 0 - 3 -> 89956
      [] q = 0 - 2 -> 89786
      [] q = 0 - 1 -> 88971
      [] q = 0     -> 85051
      [] q = 1     -> 66513
      [] q = 2     -> 0
      [] q = 3     -> 0 - 66513
      [] q = 4     -> 0 - 85051
      [] q = 5     -> 0 - 88971
      [] q = 6     -> 0 - 89786
      [] q = 7     -> 0 - 89956
      [] q = 8     -> 0 - 89991

lonToX(lon, n) == Floor((lon + 180000) * n, 360000)

latToY(lat, n) ==
    LET f == MercatorFraction(lat)
    IN IF IsNaN(f) THEN NaN ELSE Floor(f * n, 1000000)

xToLon(x, n) == (x * 360000) \div n - 180000

yToLat(y, n) == IF IsNaN(y) THEN NaN ELSE GudermannTable((y * 4) \div n)

-----------------------------------------------------------------------------
(* generateHeightmap: bounding box and tile grid *)

KM_PER_DEG_LAT == 11132     \* 111.32 km, in 1/100 km

KM_PER_DEG_LON(p) == (KM_PER_DEG_LAT * CosTable(p.centerLat)) \div 10000

\* areaKm / 2 / KM_PER_DEG in millidegrees.
halfSpanLat(p) == (p.areaKm * 100000) \div (2 * KM_PER_DEG_LAT)
halfSpanLon(p) == (p.areaKm * 100000) \div (2 * KM_PER_DEG_LON(p))

bbox(p) ==
    [west  |-> p.centerLon - halfSpanLon(p),
     east  |-> p.centerLon + halfSpanLon(p),
     south |-> p.centerLat - halfSpanLat(p),
     north |-> p.centerLat + halfSpanLat(p)]

TileCount(p) == 2^p.zoom            \* n = 1 << zoom
txMin(p) == lonToX(bbox(p).west, TileCount(p))
txMax(p) == lonToX(bbox(p).east, TileCount(p))
tyMin(p) == latToY(bbox(p).north, TileCount(p))
tyMax(p) == latToY(bbox(p).south, TileCount(p))
tw(p) == txMax(p) - txMin(p) + 1
th(p) == IF IsNaN(tyMin(p)) \/ IsNaN(tyMax(p)) THEN NaN
         ELSE tyMax(p) - tyMin(p) + 1

fullW(p) == tw(p) * TS
fullH(p) == IF IsNaN(th(p)) THEN NaN ELSE th(p) * TS

\* tw * th and fullW * fullH: a product with NaN is NaN.
tileTotal(p) == IF IsNaN(th(p)) THEN NaN ELSE tw(p) * th(p)
fullLength(p) == IF IsNaN(fullH(p)) THEN NaN ELSE fullW(p) * fullH(p)

\* The tiles the two nested loops visit: a comparison with NaN is false.
GridTiles(p) ==
    IF IsNaN(tyMin(p)) \/ IsNaN(tyMax(p)) THEN {}
    ELSE { <<tx, ty>> : tx \in txMin(p)..txMax(p), ty \in tyMin(p)..tyMax(p) }

-----------------------------------------------------------------------------
(* The tile server and fetchAndDecodeTile *)

NoError == [kind |-> "none", coord |-> <<>>, status |-> <<>>]

\* new Error(`Tile ${z}/${x}/${y} -> ${res.status}`)
TileStatusError(z, x, y, status) ==
    [kind |-> "TileStatus", coord |-> <<z, x, y>>, status |-> <<status>>]

\* fetch() rejects (network failure): a TypeError of the platform.
NetworkError == [kind |-> "FetchTypeError", coord |-> <<>>, status |-> <<>>]

\* createImageBitmap() rejects (undecodable image): a DOMException of the platform.
DecodeError == [kind |-> "InvalidStateError", coord |-> <<>>, status |-> <<>>]

\* The tiles that exist at a zoom level.
ServerHasTile(z, x, y) == x >= 0 /\ x < 2^z /\ y >= 0 /\ y < 2^z

\* RGBA of pixel (px, py) of tile (tx, ty).
TilePixel(tr, tx, ty, px, py) ==
    IF tr = "flat" THEN <<128, 10, 0, 255>>
    ELSE <<128,
           (((tx % 4) * 4 + (ty % 4)) * TS * TS + py * TS + px) % 256,
           128 * ((px + py) % 2),
           255>>

\* ctx.getImageData(0, 0, bmp.width, bmp.height): { data, width, height }.
\* The tile endpoint serves square tiles of the fixed tile size.
TileImageData(tr, tx, ty) ==
    [width  |-> TS,
     height |-> TS,
     data   |-> [k \in 0..(4 * TS * TS - 1) |->
                   TilePixel(tr, tx, ty, (k \div 4) % TS, (k \div 4) \div TS)[(k % 4) + 1]]]

\* A store into a Float32Array keeps Float32Bits significant bits of the value
\* (round to nearest, ties to even).
Float32Bits == 24

Fround(v) ==
    LET a == IF v < 0 THEN 0 - v ELSE v
    IN IF a < 2^Float32Bits THEN v
       ELSE LET j == CHOOSE k \in 1..6 : a < 2^(Float32Bits + k) /\ a >= 2^(Float32Bits + k - 1)
                q == a \div 2^j
                r == a % 2^j
                m == IF 2 * r < 2^j THEN q
                     ELSE IF 2 * r > 2^j THEN q + 1
                     ELSE IF q % 2 = 0 THEN q ELSE q + 1
            IN IF v < 0 THEN 0 - m * 2^j ELSE m * 2^j

\* Variant of DecodeTile: the blue channel added whole, not as a fraction.
DecodeTile_BlueWhole(img) ==
    [elev   |-> [i \in 0..(img.width * img.height - 1) |->
                   Fround(img.data[i * 4] * 65536 + img.data[i * 4 + 1] * 256
                            + img.data[i * 4 + 2] * 256 - 8388608)],
     width  |-> img.width,
     height |-> img.height]

\* elev[i] = data[off] * 256 + data[off + 1] + data[off + 2] / 256 - 32768, in 1/256 m.
DecodeTile(img) ==
    [elev   |-> [i \in 0..(img.width * img.height - 1) |->
                   Fround(img.data[i * 4] * 65536 + img.data[i * 4 + 1] * 256
                            + img.data[i * 4 + 2] - 8388608)],
     width  |-> img.width,
     height |-> img.height]

NoTile == [elev |-> <<>>, width |-> 0, height |-> 0]

-----------------------------------------------------------------------------
(* The tile-completion callback of generateHeightmap *)

\* Variant of TileOx: the column offset taken from the tile's row.
TileOx_FromRow(p, t) == (t[2] - tyMin(p)) * TS

\* Variant of TileOy: the row offset taken from the absolute tile index.
TileOy_NoOrigin(p, t) == t[2] * TS

\* ox, oy of tile t = <<tx, ty>>.
TileOx(p, t) == (t[1] - txMin(p)) * TS
TileOy(p, t) == (t[2] - tyMin(p)) * TS

\* Variant of WriteIndex: the pixel's row and column exchanged.
WriteIndex_Transposed(p, t, x, y) == (TileOy(p, t) + x) * fullW(p) + (TileOx(p, t) + y)

\* The index written for pixel (x, y) of tile t.
WriteIndex(p, t, x, y) == (TileOy(p, t) + y) * fullW(p) + (TileOx(p, t) + x)

\* All indices the callback of tile t writes for a decoded tile d.
WriteIndices(p, t, d) ==
    { WriteIndex(p, t, k % d.width, k \div d.width) : k \in 0..(d.width * d.height - 1) }

\* The raster after the callback of tile t ran on buffer buf.  A store to an
\* index outside a typed array is ignored; the last store to an index wins.
CopyTile(buf, p, t, d) ==
    LET store == [k \in 0..(d.width * d.height - 1) |->
                    WriteIndex(p, t, k % d.width, k \div d.width)]
    IN [i \in DOMAIN buf |->
          LET hit == { k \in DOMAIN store : store[k] = i }
          IN IF hit = {} THEN buf[i]
             ELSE d.elev[CHOOSE k \in hit : \A j \in hit : j <= k]]

-----------------------------------------------------------------------------
(* generateHeightmap: crop, normalise, resize *)

gridW(p) == xToLon(txMin(p), TileCount(p))
gridE(p) == xToLon(txMax(p) + 1, TileCount(p))
gridN(p) == yToLat(tyMin(p), TileCount(p))
gridS(p) == IF IsNaN(tyMax(p)) THEN NaN ELSE yToLat(tyMax(p) + 1, TileCount(p))

cropL(p) == Round((bbox(p).west - gridW(p)) * fullW(p), gridE(p) - gridW(p))
cropR(p) == Round((bbox(p).east - gridW(p)) * fullW(p), gridE(p) - gridW(p))

\* Variant of cropB: one row added to the rounded bottom offset.
cropB_PlusOne(p) ==
    IF IsNaN(gridN(p)) \/ IsNaN(gridS(p)) \/ IsNaN(fullH(p)) THEN NaN
    ELSE Round((gridN(p) - bbox(p).south) * fullH(p), gridN(p) - gridS(p)) + 1

cropT(p) ==
    IF IsNaN(gridN(p)) \/ IsNaN(gridS(p)) \/ IsNaN(fullH(p)) THEN NaN
    ELSE Round((gridN(p) - bbox(p).north) * fullH(p), gridN(p) - gridS(p))
cropB(p) ==
    IF IsNaN(gridN(p)) \/ IsNaN(gridS(p)) \/ IsNaN(fullH(p)) THEN NaN
    ELSE Round((gridN(p) - bbox(p).south) * fullH(p), gridN(p) - gridS(p))
cw(p) == cropR(p) - cropL(p)
ch(p) == IF IsNaN(cropT(p)) \/ IsNaN(cropB(p)) THEN NaN ELSE cropB(p) - cropT(p)

\* cw * ch as a typed-array length.
cropLength(p) == IF IsNaN(ch(p)) THEN 0 ELSE cw(p) * ch(p)

\* full[i]: a read outside the array is undefined, which a Float32Array stores
\* as NaN and which compares false with every number.
ReadFull(buf, i) == IF i \in DOMAIN buf THEN buf[i] ELSE NaN

\* cropped[y * cw + x] = full[(cropT + y) * fullW + (cropL + x)]
CropRaster(buf, p) ==
    LET left == cropL(p)
        top == cropT(p)
        width == cw(p)
        rowLen == fullW(p)
    IN [k \in 0..(cropLength(p) - 1) |->
          ReadFull(buf, (top + (k \div width)) * rowLen + (left + (k % width)))]

\* if (v < lo) lo = v, over cells k..len-1 in loop order.
RECURSIVE ScanLo(_, _, _)
ScanLo(cropped, k, lo) ==
    IF k \notin DOMAIN cropped THEN lo
    ELSE ScanLo(cropped, k + 1,
                IF ~IsNaN(cropped[k]) /\ cropped[k] < lo THEN cropped[k] ELSE lo)

\* Variant of ScanHi: the comparison of the minimum copied to the maximum.
RECURSIVE ScanHi_LessThan(_, _, _)
ScanHi_LessThan(cropped, k, hi) ==
    IF k \notin DOMAIN cropped THEN hi
    ELSE ScanHi_LessThan(cropped, k + 1,
                         IF ~IsNaN(cropped[k]) /\ cropped[k] < hi THEN cropped[k] ELSE hi)

\* if (v > hi) hi = v, over cells k..len-1 in loop order.
RECURSIVE ScanHi(_, _, _)
ScanHi(cropped, k, hi) ==
    IF k \notin DOMAIN cropped THEN hi
    ELSE ScanHi(cropped, k + 1,
                IF ~IsNaN(cropped[k]) /\ cropped[k] > hi THEN cropped[k] ELSE hi)

NoCrop == [cw |-> 0, ch |-> 0, cropped |-> <<>>, lo |-> Infinity, hi |-> NegInfinity]

\* Variant of CropStage: the range scanned over the whole stitched raster.
CropStage_FullRange(buf, p) ==
    [cw |-> cw(p), ch |-> ch(p), cropped |-> CropRaster(buf, p),
     lo |-> ScanLo(buf, 0, Infinity), hi |-> ScanHi(buf, 0, NegInfinity)]

CropStage(buf, p) ==
    LET c == CropRaster(buf, p)
    IN [cw |-> cw(p), ch |-> ch(p), cropped |-> c,
        lo |-> ScanLo(c, 0, Infinity), hi |-> ScanHi(c, 0, NegInfinity)]

\* Variant of NormRange: without the fallback for an empty range.
NormRange_NoGuard(lo, hi) ==
    IF ~IsFiniteNum(lo) \/ ~IsFiniteNum(hi) THEN NegInfinity ELSE hi - lo

\* const range = hi - lo || 1
NormRange(lo, hi) ==
    IF ~IsFiniteNum(lo) \/ ~IsFiniteNum(hi) THEN NegInfinity
    ELSE IF hi - lo = 0 THEN 1 ELSE hi - lo

\* Variant of NormCell: scaled by 256 instead of 255.
NormCell_Scale256(v, lo, range) ==
    IF IsNaN(v) \/ ~IsFiniteNum(lo) \/ ~IsFiniteNum(range) \/ range = 0 THEN 0
    ELSE Round((v - lo) * 256, range) % 256

\* u8[i] = Math.round(((cropped[i] - lo) / range) * 255), stored modulo 256;
\* a NaN or an infinite quotient (a division by 0) is stored as 0.
NormCell(v, lo, range) ==
    IF IsNaN(v) \/ ~IsFiniteNum(lo) \/ ~IsFiniteNum(range) \/ range = 0 THEN 0
    ELSE Round((v - lo) * 255, range) % 256

Normalize(c) ==
    [k \in DOMAIN c.cropped |-> NormCell(c.cropped[k], c.lo, NormRange(c.lo, c.hi))]

\* new OffscreenCanvas(cw, ch) rejects a NaN size (TypeError);
\* createImageData(cw, ch) rejects a zero size (IndexSizeError).
CanvasTypeError == [kind |-> "TypeError", coord |-> <<>>, status |-> <<>>]
IndexSizeError == [kind |-> "IndexSizeError", coord |-> <<>>, status |-> <<>>]

ResizeError(c) ==
    IF IsNaN(c.cw) \/ IsNaN(c.ch) THEN CanvasTypeError
    ELSE IF c.cw = 0 \/ c.ch = 0 THEN IndexSizeError
    ELSE NoError

\* dstCtx.drawImage(srcCanvas, 0, 0, outputPx, outputPx) and the copy of the R
\* channel.  The filter is the browser's; the model samples the source pixel
\* under the centre of each destination pixel.
Resample(g, w, h, px) ==
    [k \in 0..(px * px - 1) |->
       g[(((2 * (k \div px) + 1) * h) \div (2 * px)) * w
         + (((2 * (k % px) + 1) * w) \div (2 * px))]]

NoResult == [heightmap |-> <<>>, width |-> 0, height |-> 0,
             elevMin |-> 0, elevMax |-> 0]

\* Variant of MakeResult: the size of the crop reported as the size of the result.
MakeResult_CropSize(hm, c, p) ==
    [heightmap |-> hm, width |-> c.cw, height |-> c.ch,
     elevMin |-> c.lo, elevMax |-> c.hi]

\* return { heightmap, width: outputPx, height: outputPx, elevMin: lo, elevMax: hi }
MakeResult(hm, c, p) ==
    [heightmap |-> hm,
     width |-> p.outputPx, height |-> p.outputPx,
     elevMin |-> c.lo, elevMax |-> c.hi]

-----------------------------------------------------------------------------
(* Promise.all and the progress callback *)

\* Variant of AllOnReject: every rejection replaces the reason.
AllOnReject_LastWins(all, err) == [st |-> "rejected", reason |-> err]

\* Variant of AllOnFulfil: the first fulfilment fulfils the whole.
AllOnFulfil_Any(all, ts) ==
    IF all.st = "pending" THEN [st |-> "fulfilled", reason |-> NoError] ELSE all

\* Promise.all on the rejection of one of its promises: it rejects with the first
\* rejection and ignores the later ones.
AllOnReject(all, err) ==
    IF all.st = "pending" THEN [st |-> "rejected", reason |-> err] ELSE all

\* Promise.all on the fulfilment of one of its promises: it fulfils when every
\* promise of the array is fulfilled.  ts is the tiles after the fulfilment.
AllOnFulfil(all, ts) ==
    IF all.st = "pending" /\ \A u \in DOMAIN ts : ts[u].st = "copied"
    THEN [st |-> "fulfilled", reason |-> NoError]
    ELSE all

\* Variant of Notify: the newest message first.
Notify_Prepend(log, msg) == <<msg>> \o log

\* onProgress?.(msg): the caller appends the message to its log.
Notify(log, msg) == Append(log, msg)

-----------------------------------------------------------------------------
(* State machine of one generateHeightmap invocation *)

Init ==
    /\ params \in ParamSet
    /\ terrain \in Terrains
    /\ pc = "init"
    /\ progress = <<>>
    /\ full = <<>>
    /\ requests = <<>>
    /\ tiles = <<>>
    /\ allState = [st |-> "none", reason |-> NoError]
    /\ firstFail = <<>>
    /\ copyOrder = <<>>
    /\ written = <<>>
    /\ crop = NoCrop
    /\ u8 = <<>>
    /\ heightmap = <<>>
    /\ result = NoResult
    /\ error = NoError
    /\ AsideIdle

\* Lines 151-180: bbox, tile grid, the start notification, the raster.
Begin ==
    /\ pc = "init"
    /\ progress' = Notify(progress, <<"fetchStart", tileTotal(params), params.zoom>>)
    /\ full' = [i \in 0..(ToLength(fullLength(params)) - 1) |-> 0]
    /\ pc' = "issue"
    /\ UNCHANGED <<aside, params, terrain, requests, tiles, allState, firstFail, copyOrder, written,
                   crop, u8, heightmap, result, error>>

\* The requests in the order of the two nested loops (ty outer, tx inner).
LoopOrder(p) ==
    [k \in 1..Cardinality(GridTiles(p)) |->
       <<p.zoom, txMin(p) + ((k - 1) % tw(p)), tyMin(p) + ((k - 1) \div tw(p))>>]

\* Lines 182-196: every fetchAndDecodeTile call runs up to its await fetch(url);
\* Promise.all of an empty array is already fulfilled.
IssueRequests ==
    /\ pc = "issue"
    /\ requests' = LoopOrder(params)
    /\ tiles' = [t \in GridTiles(params) |->
                   [st |-> "pending", err |-> NoError, tile |-> NoTile]]
    /\ written' = [t \in GridTiles(params) |-> {}]
    /\ copyOrder' = <<>>
    /\ allState' = [st |-> IF GridTiles(params) = {} THEN "fulfilled" ELSE "pending",
                    reason |-> NoError]
    /\ pc' = "await"
    /\ UNCHANGED <<aside, params, terrain, progress, full, firstFail, crop, u8, heightmap,
                   result, error>>

\* The promise of tile t rejects with err.
RejectTile(t, err) ==
    /\ tiles' = [tiles EXCEPT ![t].st = "failed", ![t].err = err]
    /\ firstFail' = IF firstFail = <<>> THEN t ELSE firstFail
    /\ allState' = AllOnReject(allState, err)
    /\ UNCHANGED <<aside, params, terrain, pc, progress, full, requests, copyOrder, written,
                   crop, u8, heightmap, result, error>>

\* Lines 128-130: the response is ok.
TileRespondOk(t) ==
    /\ tiles[t].st = "pending"
    /\ ServerHasTile(params.zoom, t[1], t[2])
    /\ tiles' = [tiles EXCEPT ![t].st = "fetched"]
    /\ UNCHANGED <<aside, params, terrain, pc, progress, full, requests, allState, firstFail,
                   copyOrder, written, crop, u8, heightmap, result, error>>

\* Line 129: if (!res.ok) throw new Error(`Tile z/x/y -> status`).
TileRespondError(t, status) ==
    /\ tiles[t].st = "pending"
    /\ RejectTile(t, TileStatusError(params.zoom, t[1], t[2], status))

\* Line 128: fetch itself rejects.
TileNetworkError(t) ==
    /\ tiles[t].st = "pending"
    /\ RejectTile(t, NetworkError)

\* Line 131: createImageBitmap rejects.
TileDecodeFail(t) ==
    /\ tiles[t].st = "fetched"
    /\ RejectTile(t, DecodeError)

\* Lines 131-143 and 186-192: the image decodes, the elevation grid is computed
\* and the promise fulfils; its then-callback copies the grid into the raster.
\* When it was the last callback, Promise.all fulfils.  The two steps are one
\* action: the first touches nothing but the tile's own promise.
TileCopy(t) ==
    /\ tiles[t].st = "fetched"
    /\ LET d == DecodeTile(TileImageData(terrain, t[1], t[2]))
       IN /\ tiles' = [tiles EXCEPT ![t].st = "copied", ![t].tile = d]
          /\ full' = CopyTile(full, params, t, d)
          /\ written' = [written EXCEPT ![t] = WriteIndices(params, t, d)]
    /\ copyOrder' = Append(copyOrder, t)
    /\ allState' = AllOnFulfil(allState, tiles')
    /\ UNCHANGED <<aside, params, terrain, pc, progress, requests, firstFail, crop, u8,
                   heightmap, result, error>>

\* Lines 196-198: await Promise.all(promises) returns.
ResumeFulfilled ==
    /\ pc = "await"
    /\ allState.st = "fulfilled"
    /\ progress' = Notify(progress, <<"fetchDone">>)
    /\ pc' = "crop"
    /\ UNCHANGED <<aside, params, terrain, full, requests, tiles, allState, firstFail,
                   copyOrder, written, crop, u8, heightmap, result, error>>

\* Line 196: await Promise.all(promises) throws; generateHeightmap rejects.
ResumeRejected ==
    /\ pc = "await"
    /\ allState.st = "rejected"
    /\ error' = allState.reason
    /\ pc' = "rejected"
    /\ UNCHANGED <<aside, params, terrain, progress, full, requests, tiles, allState,
                   firstFail, copyOrder, written, crop, u8, heightmap, result>>

\* Lines 200-224.
Crop ==
    /\ pc = "crop"
    /\ crop' = CropStage(full, params)
    /\ pc' = "normalize"
    /\ UNCHANGED <<aside, params, terrain, progress, full, requests, tiles, allState,
                   firstFail, copyOrder, written, u8, heightmap, result, error>>

\* Lines 226-231.
NormalizeStage ==
    /\ pc = "normalize"
    /\ u8' = Normalize(crop)
    /\ pc' = "resize"
    /\ UNCHANGED <<aside, params, terrain, progress, full, requests, tiles, allState,
                   firstFail, copyOrder, written, crop, heightmap, result, error>>

\* Lines 233-260.
Resize ==
    /\ pc = "resize"
    /\ progress' = Notify(progress, <<"resizeStart", params.outputPx>>)
    /\ IF ResizeError(crop) # NoError
       THEN /\ error' = ResizeError(crop)
            /\ pc' = "rejected"
            /\ UNCHANGED heightmap
       ELSE /\ heightmap' = Resample(u8, crop.cw, crop.ch, params.outputPx)
            /\ pc' = "finish"
            /\ UNCHANGED error
    /\ UNCHANGED <<aside, params, terrain, full, requests, tiles, allState, firstFail,
                   copyOrder, written, crop, u8, result>>

\* Lines 262-266.
Finish ==
    /\ pc = "finish"
    /\ progress' = Notify(progress, <<"elevRange", crop.lo, crop.hi>>)
    /\ result' = MakeResult(heightmap, crop, params)
    /\ pc' = "done"
    /\ UNCHANGED <<aside, params, terrain, full, requests, tiles, allState, firstFail,
                   copyOrder, written, crop, u8, heightmap, error>>

Next ==
    \/ Begin
    \/ IssueRequests
    \/ \E t \in DOMAIN tiles : TileRespondOk(t)
    \/ \E t \in DOMAIN tiles : \E status \in ErrorStatuses : TileRespondError(t, status)
    \/ \E t \in DOMAIN tiles : TileNetworkError(t)
    \/ \E t \in DOMAIN tiles : TileDecodeFail(t)
    \/ \E t \in DOMAIN tiles : TileCopy(t)
    \/ ResumeFulfilled
    \/ ResumeRejected
    \/ Crop
    \/ NormalizeStage
    \/ Resize
    \/ Finish

Spec == Init /\ [][Next]_allVars

-----------------------------------------------------------------------------
(* Properties of generateHeightmap *)

\* Every tile of the grid has been requested and its callback has run.
AllTilesCopied ==
    /\ pc \notin {"init", "issue"}
    /\ \A t \in DOMAIN tiles : tiles[t].st = "copied"

\* The run is past the join barrier: await Promise.all(promises) has returned.
PastBarrier ==
    \/ pc \in {"crop", "normalize", "resize", "finish", "done"}
    \/ pc = "rejected" /\ allState.st = "fulfilled"

\* The raster obtained by running the callbacks of tiles k..last of the request
\* list one after the other, in the order of the request list.
RECURSIVE StitchInRequestOrder(_, _, _, _)
StitchInRequestOrder(buf, p, tr, k) ==
    IF k > Len(LoopOrder(p)) THEN buf
    ELSE LET t == <<LoopOrder(p)[k][2], LoopOrder(p)[k][3]>>
         IN StitchInRequestOrder(
                CopyTile(buf, p, t, DecodeTile(TileImageData(tr, t[1], t[2]))),
                p, tr, k + 1)

\* C1: once every tile fetch has completed, the stitched raster is the raster
\* that the completion order "request order" produces, whatever order the
\* completions took: the raster does not depend on the completion order.
C1_RasterIndependentOfOrder ==
    AllTilesCopied =>
        full = StitchInRequestOrder([i \in DOMAIN full |-> 0], params, terrain, 1)

\* A 2 x 2 grid of distinct tiles completed in the reverse of the request order.
C1_Witness ==
    /\ AllTilesCopied
    /\ terrain = "relief"
    /\ Len(copyOrder) = 4
    /\ \A k \in 1..4 : copyOrder[k] = <<requests[5 - k][2], requests[5 - k][3]>>

\* C2: once a tile fetch has failed, the run never leaves the await except by
\* rejecting, it rejects with the error of the first failure, it holds no
\* HeightmapResult and no crop, normalise or resize output.
C2_FailFast ==
    firstFail # <<>> =>
        /\ pc \in {"await", "rejected"}
        /\ allState = [st |-> "rejected", reason |-> tiles[firstFail].err]
        /\ pc = "rejected" => error = tiles[firstFail].err
        /\ result = NoResult
        /\ crop = NoCrop /\ u8 = <<>> /\ heightmap = <<>>

\* A rejected run in which two tiles failed with different errors and another
\* tile was copied after the first failure.
C2_Witness ==
    /\ pc = "rejected"
    /\ firstFail # <<>>
    /\ \E t \in DOMAIN tiles :
         /\ tiles[t].st = "failed" /\ t # firstFail
         /\ tiles[t].err # tiles[firstFail].err
    /\ \E t \in DOMAIN tiles : tiles[t].st = "copied"

\* C3: past the join barrier every tile of the grid has been fetched, decoded
\* and copied, and no step taken past the barrier changes the raster.
C3_JoinBarrier ==
    /\ [](PastBarrier =>
            \A t \in GridTiles(params) : t \in DOMAIN tiles /\ tiles[t].st = "copied")
    /\ [][PastBarrier => full' = full]_vars

\* The crop of a 2 x 2 grid has been taken after out-of-order completions.
C3_Witness ==
    /\ pc = "normalize"
    /\ Len(copyOrder) = 4
    /\ copyOrder[1] # <<requests[1][2], requests[1][3]>>

\* The tile-aligned rectangle of tile t in the raster, as linear indices.
OwnRectangle(p, t) ==
    LET left == (t[1] - txMin(p)) * TS
        top == (t[2] - tyMin(p)) * TS
        rowLen == fullW(p)
    IN { row * rowLen + col : col \in left..(left + TS - 1), row \in top..(top + TS - 1) }

\* C4: every callback writes only indices of its own tile-aligned rectangle,
\* every written index is inside the raster, and no index is written by two tiles.
C4_DisjointWrites ==
    \A t \in DOMAIN written :
        /\ written[t] \subseteq OwnRectangle(params, t)
        /\ written[t] \subseteq DOMAIN full
        /\ \A u \in DOMAIN written : u # t => written[t] \cap written[u] = {}

\* All four callbacks of a 2 x 2 grid have written.
C4_Witness ==
    /\ Cardinality(DOMAIN written) = 4
    /\ \A t \in DOMAIN written : Cardinality(written[t]) = TS * TS

\* C5: a returned HeightmapResult has width = height = outputPx and a heightmap
\* of outputPx * outputPx values.
C5_OutputShape ==
    pc = "done" =>
        /\ result.width = params.outputPx
        /\ result.height = params.outputPx
        /\ DOMAIN result.heightmap = 0..(params.outputPx * params.outputPx - 1)

\* A result whose size differs from the size of the crop.
C5_Witness ==
    /\ pc = "done"
    /\ crop.cw # params.outputPx
    /\ crop.ch # params.outputPx

\* C6: a returned HeightmapResult has elevMin <= elevMax.
C6_ElevationRangeOrdered ==
    pc = "done" => result.elevMin <= result.elevMax

\* A result over terrain with relief.
C6_Witness ==
    /\ pc = "done"
    /\ IsFiniteNum(result.elevMin) /\ IsFiniteNum(result.elevMax)
    /\ result.elevMin < result.elevMax

\* k = Math.round(num / den) for den > 0: k - 1/2 <= num / den < k + 1/2.
RoundsTo(k, num, den) ==
    /\ 2 * k * den - den <= 2 * num
    /\ 2 * num < 2 * k * den + den

\* C7: for a crop with elevMin < elevMax the normalised grid has the crop's
\* dimensions, every cell is an integer in 0..255 equal to
\* round((v - elevMin) / (elevMax - elevMin) * 255), the cells equal to elevMin
\* are 0 and the cells equal to elevMax are 255.
C7_Normalization ==
    (pc \in {"resize", "finish", "done"} /\ crop.lo < crop.hi) =>
        /\ DOMAIN u8 = 0..(crop.cw * crop.ch - 1)
        /\ \A k \in DOMAIN u8 :
             /\ u8[k] \in 0..255
             /\ RoundsTo(u8[k], (crop.cropped[k] - crop.lo) * 255, crop.hi - crop.lo)
             /\ crop.cropped[k] = crop.lo => u8[k] = 0
             /\ crop.cropped[k] = crop.hi => u8[k] = 255

\* A normalised crop with a cell strictly between the extremes.
C7_Witness ==
    /\ pc = "resize"
    /\ crop.lo < crop.hi
    /\ \E k \in DOMAIN u8 : u8[k] \notin {0, 255}
    /\ \E k \in DOMAIN u8 : u8[k] = 0
    /\ \E k \in DOMAIN u8 : u8[k] = 255

\* The failures of a tile fetch by a non-success response or an undecodable image.
ResponseOrDecodeFailure(err) == err.kind \in {"TileStatus", "InvalidStateError"}

\* C8: the error of every tile fetch that failed by a non-success response or
\* an undecodable image, and the error a run rejects with after such a
\* failure, carries the coordinate (zoom, x, y) of the tile and a status.
C8_TileErrorCarriesCoordinate ==
    /\ \A t \in DOMAIN tiles :
         (tiles[t].st = "failed" /\ ResponseOrDecodeFailure(tiles[t].err)) =>
            /\ tiles[t].err.coord = <<params.zoom, t[1], t[2]>>
            /\ Len(tiles[t].err.status) = 1
    /\ (pc = "rejected" /\ firstFail # <<>> /\ ResponseOrDecodeFailure(error)) =>
            /\ error.coord = <<params.zoom, firstFail[1], firstFail[2]>>
            /\ Len(error.status) = 1

\* C9: once the requests are issued, their number is the count announced in
\* the start notification (tilesWide * tilesHigh), every request is for a tile
\* of the grid, and every tile of the grid is requested exactly once.
C9_EachTileRequestedOnce ==
    pc \notin {"init", "issue"} =>
        /\ Len(requests) = progress[1][2]
        /\ \A k \in 1..Len(requests) :
             /\ requests[k][1] = params.zoom
             /\ <<requests[k][2], requests[k][3]>> \in GridTiles(params)
        /\ \A t \in GridTiles(params) :
             Cardinality({ k \in 1..Len(requests) :
                             requests[k] = <<params.zoom, t[1], t[2]>> }) = 1

\* C16: every requested tile coordinate (zoom, x, y) has 0 <= x < 2^zoom and
\* 0 <= y < 2^zoom.
C16_RequestsInRange ==
    \A k \in 1..Len(requests) :
        /\ 0 <= requests[k][2] /\ requests[k][2] < 2^requests[k][1]
        /\ 0 <= requests[k][3] /\ requests[k][3] < 2^requests[k][1]

\* The notifications of a successful run, in order.
ProgressTags == <<"fetchStart", "fetchDone", "resizeStart", "elevRange">>

\* C10: the notifications are a prefix of start, complete, resize start,
\* elevation range; a returned run has emitted all four; requests are issued
\* only after the start notification; the complete notification comes only
\* after every tile was copied; a run with a failed tile fetch has emitted the
\* start notification alone.
C10_ProgressOrder ==
    /\ Len(progress) <= 4
    /\ \A k \in 1..Len(progress) : progress[k][1] = ProgressTags[k]
    /\ pc = "done" => Len(progress) = 4
    /\ requests # <<>> => Len(progress) >= 1
    /\ Len(progress) >= 2 => AllTilesCopied
    /\ firstFail # <<>> => Len(progress) = 1

\* A returned run over a 2 x 2 grid.
C10_Witness ==
    /\ pc = "done"
    /\ Len(progress) = 4
    /\ Len(requests) = 4

\* Minimum and maximum of a non-empty finite set of numbers.
SetMin(S) == CHOOSE v \in S : \A w \in S : v <= w
SetMax(S) == CHOOSE v \in S : \A w \in S : v >= w

\* The linear indices of the raster cells in the crop rectangle
\* [cropLeft, cropRight) x [cropTop, cropBottom).
CropRectangle(p) ==
    LET rowLen == fullW(p)
    IN { row * rowLen + col :
           col \in cropL(p)..(cropR(p) - 1), row \in cropT(p)..(cropB(p) - 1) }

\* C11: the elevMin and elevMax of a returned result are the minimum and the
\* maximum of the raster cells inside the crop rectangle, they are the range
\* found by the crop stage, and no later stage (normalise, resize, return)
\* changes that range.
C11_RangeOfCropOnly ==
    /\ pc \in {"normalize", "resize", "finish", "done"} /\ ResizeError(crop) = NoError =>
          LET inside == { full[i] : i \in CropRectangle(params) }
          IN /\ CropRectangle(params) \subseteq DOMAIN full
             /\ crop.lo = SetMin(inside)
             /\ crop.hi = SetMax(inside)
    /\ pc = "done" => result.elevMin = crop.lo /\ result.elevMax = crop.hi

\* A returned result over a raster with relief that has a cell outside the crop
\* rectangle below elevMin and another above elevMax.
C11_Witness ==
    /\ pc = "done"
    /\ \E i \in DOMAIN full \ CropRectangle(params) : full[i] < result.elevMin
    /\ \E i \in DOMAIN full \ CropRectangle(params) : full[i] > result.elevMax
    /\ result.elevMin < result.elevMax

\* The elevations decoded from the tiles of the run.
DecodedValues ==
    UNION { { tiles[t].tile.elev[i] : i \in DOMAIN tiles[t].tile.elev } : t \in DOMAIN tiles }

\* C12: when every decoded tile value is one elevation e, the divisor of the
\* normalisation is not zero, every normalised cell and every cell of the
\* resulting heightmap holds one gray value, and the result reports
\* elevMin = elevMax = e.
C12_FlatTerrain ==
    (AllTilesCopied /\ Cardinality(DecodedValues) = 1) =>
        LET e == CHOOSE v \in DecodedValues : TRUE
        IN /\ pc \in {"resize", "finish", "done"} =>
                /\ NormRange(crop.lo, crop.hi) # 0
                /\ \A j, k \in DOMAIN u8 : u8[j] = u8[k]
           /\ pc = "done" =>
                /\ \A j, k \in DOMAIN result.heightmap :
                      result.heightmap[j] = result.heightmap[k]
                /\ result.elevMin = e
                /\ result.elevMax = e

\* A returned result of several cells over four tiles of one elevation.
C12_Witness ==
    /\ pc = "done"
    /\ Cardinality(DOMAIN tiles) = 4
    /\ Cardinality(DecodedValues) = 1
    /\ Cardinality(DOMAIN u8) > 1
    /\ Cardinality(DOMAIN result.heightmap) > 1
    /\ result.elevMin = result.elevMax

\* C13: after a stitch in which every tile of a non-empty grid was copied, the
\* raster has (tilesWide * TS) * (tilesHigh * TS) cells; for every tile
\* (tx, ty) and pixel (x, y) the cell at row (ty - tyMin) * TS + y and column
\* (tx - txMin) * TS + x holds the tile's decoded elevation at (x, y); every
\* cell was written by exactly one tile.
C13_StitchLayout ==
    (AllTilesCopied /\ DOMAIN tiles # {}) =>
        LET wide == tw(params)
            high == th(params)
            left == txMin(params)
            top == tyMin(params)
        IN /\ DOMAIN full = 0..((wide * TS) * (high * TS) - 1)
           /\ DOMAIN tiles = GridTiles(params)
           /\ \A t \in DOMAIN tiles : \A x, y \in 0..(TS - 1) :
                 full[((t[2] - top) * TS + y) * (wide * TS) + ((t[1] - left) * TS + x)]
                   = tiles[t].tile.elev[y * TS + x]
           /\ \A i \in DOMAIN full :
                 Cardinality({ t \in DOMAIN written : i \in written[t] }) = 1

\* A stitched 2 x 2 grid of tiles that all differ.
C13_Witness ==
    /\ pc = "crop"
    /\ Cardinality(DOMAIN tiles) = 4
    /\ \A t, u \in DOMAIN tiles : t # u => tiles[t].tile.elev # tiles[u].tile.elev
    /\ \A t \in DOMAIN tiles : Cardinality(DOMAIN tiles[t].tile.elev) = TS * TS

\* The crop stage has run.
Cropped ==
    \/ pc \in {"normalize", "resize", "finish", "done"}
    \/ pc = "rejected" /\ allState.st = "fulfilled"

\* The tile grid of the run is a single tile.
SingleTile == Cardinality(GridTiles(params)) = 1

\* The four crop offsets of the run.
CropOffsets == <<cropL(params), cropR(params), cropT(params), cropB(params)>>

\* C19 as stated: in a run over a 1 x 1 tile grid the four crop offsets lie
\* within [0, TS).
C19_OffsetsBelowTileSize ==
    (Cropped /\ SingleTile) => \A k \in 1..4 : CropOffsets[k] \in 0..(TS - 1)

\* C19 amended: in a run over a 1 x 1 tile grid the four crop offsets lie
\* within [0, TS], TS included, with cropLeft <= cropRight and
\* cropTop <= cropBottom.
C19_OffsetsWithinTile ==
    (Cropped /\ SingleTile) =>
        /\ \A k \in 1..4 : CropOffsets[k] \in 0..TS
        /\ CropOffsets[1] <= CropOffsets[2]
        /\ CropOffsets[3] <= CropOffsets[4]

\* A returned run over one tile whose crop reaches the tile's bottom edge.
C19_Witness ==
    /\ pc = "done"
    /\ SingleTile
    /\ CropOffsets[4] = TS
    /\ CropOffsets[1] < CropOffsets[2]

\* a <= b of two numbers: false when one of them is NaN.
NumLeq(a, b) == ~IsNaN(a) /\ ~IsNaN(b) /\ a <= b

\* C20: once the crop stage has run, 0 <= cropLeft <= cropRight <= fullWidth
\* and 0 <= cropTop <= cropBottom <= fullHeight, and every index the crop loop
\* read is an index of the raster, in a column below fullWidth.
C20_CropInsideRaster ==
    Cropped =>
        LET p == params
        IN /\ NumLeq(0, cropL(p)) /\ NumLeq(cropL(p), cropR(p)) /\ NumLeq(cropR(p), fullW(p))
           /\ NumLeq(0, cropT(p)) /\ NumLeq(cropT(p), cropB(p)) /\ NumLeq(cropB(p), fullH(p))
           /\ \A k \in DOMAIN crop.cropped :
                /\ cropL(p) + (k % crop.cw) < fullW(p)
                /\ (cropT(p) + (k \div crop.cw)) * fullW(p) + (cropL(p) + (k % crop.cw))
                     \in DOMAIN full

-----------------------------------------------------------------------------
(* Binary floating point: the numbers of the source *)

\* Every number of the source is an IEEE 754 binary float and every arithmetic
\* operation rounds its exact result to the nearest float, ties to even.  A
\* float is [m, e] with value m * 2^e; the mantissa has MantissaBits bits
\* (the source's numbers have 53).
MantissaBits == 8

Abs(a) == IF a < 0 THEN 0 - a ELSE a
Max(a, b) == IF a >= b THEN a ELSE b
Min(a, b) == IF a <= b THEN a ELSE b

\* a / den scaled by a power of two into [2^(MantissaBits-1), 2^MantissaBits).
RECURSIVE Scale(_, _, _)
Scale(a, den, e) ==
    IF a < 2^(MantissaBits - 1) * den THEN Scale(2 * a, den, e - 1)
    ELSE IF a >= 2^MantissaBits * den THEN Scale(a, 2 * den, e + 1)
    ELSE [num |-> a, den |-> den, e |-> e]

\* The integer nearest to a / b, ties to the even one (a >= 0, b > 0).
RoundHalfEven(a, b) ==
    LET q == a \div b
        r == a % b
    IN IF 2 * r < b THEN q
       ELSE IF 2 * r > b THEN q + 1
       ELSE IF q % 2 = 0 THEN q ELSE q + 1

\* The float nearest to num / den, den > 0.
RoundToFloat(num, den) ==
    IF num = 0 THEN [m |-> 0, e |-> 0]
    ELSE LET s == Scale(Abs(num), den, 0)
             m == RoundHalfEven(s.num, s.den)
         IN [m |-> IF num < 0 THEN 0 - m ELSE m, e |-> s.e]

\* The float nearest to num * 2^e.
RoundScaled(num, e) ==
    LET f == RoundToFloat(num, 1)
    IN [m |-> f.m, e |-> IF f.m = 0 THEN 0 ELSE f.e + e]

\* a + b, a - b, a * b, a / b of two floats.
FAdd(a, b) ==
    LET e == Min(a.e, b.e)
    IN RoundScaled(a.m * 2^(a.e - e) + b.m * 2^(b.e - e), e)
FNeg(a) == [m |-> 0 - a.m, e |-> a.e]
FSub(a, b) == FAdd(a, FNeg(b))
FMul(a, b) == RoundScaled(a.m * b.m, a.e + b.e)
FDiv(a, b) ==
    LET sign == IF b.m < 0 THEN 0 - 1 ELSE 1
        f == RoundToFloat(sign * a.m, Abs(b.m))
    IN [m |-> f.m, e |-> IF f.m = 0 THEN 0 ELSE f.e + a.e - b.e]

\* a <= b and a < b of two floats.
FLeq(a, b) ==
    LET e == Min(a.e, b.e)
    IN a.m * 2^(a.e - e) <= b.m * 2^(b.e - e)
FLess(a, b) == ~FLeq(b, a)

\* Math.floor of a float, as an integer.
FFloor(a) == IF a.e >= 0 THEN a.m * 2^a.e ELSE a.m \div 2^(0 - a.e)

\* The float of an integer literal.
FInt(k) == RoundToFloat(k, 1)

\* Whether the number num / den is a float.
IsFloat(num, den) ==
    LET f == RoundToFloat(num, den)
    IN IF f.e >= 0 THEN f.m * 2^f.e * den = num ELSE f.m * den = num * 2^(0 - f.e)

-----------------------------------------------------------------------------
(* Projection round trip in floating point *)

\* Math.floor(((lon + 180) / 360) * n)
lonToXFloat(lon, n) ==
    FFloor(FMul(FDiv(FAdd(lon, FInt(180)), FInt(360)), FInt(n)))

\* (x / n) * 360 - 180
xToLonFloat(x, n) ==
    FSub(FMul(FDiv(FInt(x), FInt(n)), FInt(360)), FInt(180))

\* Longitudes are drawn from the floats on a grid of 1 / LonGrid degree in
\* [-180, 180], zoom levels from 0..MaxRoundTripZoom.
LonGrid == 4
MaxRoundTripZoom == 3

LonInputs ==
    { RoundToFloat(k, LonGrid) :
        k \in { j \in (0 - 180 * LonGrid)..(180 * LonGrid) : IsFloat(j, LonGrid) } }

ProjInit ==
    /\ proj \in { [stage |-> "point", lon |-> l, zoom |-> z, x |-> 0,
                  west |-> FInt(0), east |-> FInt(0)] :
                    l \in LonInputs, z \in 0..MaxRoundTripZoom }
    /\ PipelineIdle /\ AppIdle
    /\ pixel = NotInUse /\ calls = NotInUse /\ dat = NotInUse

\* x = lonToX(lon, n) with n = 1 << zoom.
ToTile ==
    /\ proj.stage = "point"
    /\ proj' = [proj EXCEPT !.stage = "tile", !.x = lonToXFloat(proj.lon, 2^proj.zoom)]
    /\ UNCHANGED <<vars, appVars, pixel, calls, dat>>

\* The bounds of tile x: xToLon(x, n) and xToLon(x + 1, n).
ToBounds ==
    /\ proj.stage = "tile"
    /\ proj' = [proj EXCEPT !.stage = "bounds",
                            !.west = xToLonFloat(proj.x, 2^proj.zoom),
                            !.east = xToLonFloat(proj.x + 1, 2^proj.zoom)]
    /\ UNCHANGED <<vars, appVars, pixel, calls, dat>>

ProjNext == ToTile \/ ToBounds

SpecProjection == ProjInit /\ [][ProjNext]_allVars

\* C14 (longitude): for x = lonToX(lon, n), the bounds of tile x contain the
\* point: xToLon(x, n) <= lon < xToLon(x + 1, n).
C14_RoundTripContainsPoint ==
    proj.stage = "bounds" => FLeq(proj.west, proj.lon) /\ FLess(proj.lon, proj.east)

-----------------------------------------------------------------------------
(* Decoding of one Terrarium pixel *)

\* Channel values the pixels are drawn from.
ChannelSamples == {0, 1, 127, 128, 254, 255}
AlphaSamples == {0, 255}

\* The image data of a 1 x 1 tile holding the pixel rgba.
OnePixel(rgba) == [width |-> 1, height |-> 1, data |-> [k \in 0..3 |-> rgba[k + 1]]]

PixelInit ==
    /\ pixel \in { [stage |-> "rgba", rgba |-> <<r, g, b, a>>, elev |-> 0] :
                     r \in ChannelSamples, g \in ChannelSamples,
                     b \in ChannelSamples, a \in AlphaSamples }
    /\ PipelineIdle /\ AppIdle
    /\ proj = NotInUse /\ calls = NotInUse /\ dat = NotInUse

\* Lines 138-142 for an image of one pixel.
DecodePixel ==
    /\ pixel.stage = "rgba"
    /\ pixel' = [pixel EXCEPT !.stage = "decoded",
                              !.elev = DecodeTile(OnePixel(pixel.rgba)).elev[0]]
    /\ UNCHANGED <<vars, appVars, proj, calls, dat>>

PixelNext == DecodePixel

SpecDecode == PixelInit /\ [][PixelNext]_allVars

\* C15: the decoded elevation of a pixel (R, G, B, A) is R*256 + G + B/256 - 32768
\* (here in 1/256 m), whatever A is; it lies in [-32768, 32768); two pixels
\* with different (R, G, B) decode to different elevations.
C15_DecodeFormula ==
    pixel.stage = "decoded" =>
        LET R == pixel.rgba[1]
            G == pixel.rgba[2]
            B == pixel.rgba[3]
        IN /\ pixel.elev = 256 * (R * 256 + G - 32768) + B
           /\ 0 - 32768 * 256 <= pixel.elev /\ pixel.elev < 32768 * 256
           /\ \A a \in AlphaSamples :
                DecodeTile(OnePixel(<<R, G, B, a>>)).elev[0] = pixel.elev
           /\ \A r, g, b \in ChannelSamples :
                <<r, g, b>> # <<R, G, B>> =>
                    DecodeTile(OnePixel(<<r, g, b, pixel.rgba[4]>>)).elev[0] # pixel.elev

\* A decoded transparent pixel with a fractional part.
C15_Witness ==
    /\ pixel.stage = "decoded"
    /\ pixel.rgba = <<128, 1, 127, 0>>
    /\ pixel.elev = 256 + 127

-----------------------------------------------------------------------------
(* Several generateHeightmap invocations in flight *)

\* Invocations are numbered 1..MaxCalls.
MaxCalls == 2
Calls == 1..MaxCalls

\* The inputs of the invocations: a 2 x 1 grid, and a 1 x 1 grid with an empty crop.
CallParams ==
    { p \in ParamSet :
        /\ p.centerLat = 30000 /\ p.zoom = 2 /\ p.outputPx = MaxOutputPx
        /\ <<p.centerLon, p.areaKm>> \in {<<0, 5000>>, <<45000, 20>>} }

\* The tile contents all invocations are served.
CallTerrain == "relief"

NoParams == [centerLat |-> 0, centerLon |-> 0, areaKm |-> 0, outputPx |-> 0, zoom |-> 0]

IdleCall ==
    [pc |-> "idle", params |-> NoParams, full |-> <<>>, tiles |-> <<>>,
     allState |-> [st |-> "none", reason |-> NoError],
     result |-> NoResult, error |-> NoError]

\* Variant of RasterOwner: one raster at module level, used by every invocation.
RasterOwner_Shared(i) == 1

\* The invocation whose raster the code of invocation i uses: full is a const
\* of the invocation, captured by its callbacks.
RasterOwner(i) == i

RasterAt(c, i) == c[RasterOwner(i)].full
WithRaster(c, i, buf) == [c EXCEPT ![RasterOwner(i)].full = buf]

CallsInit ==
    /\ calls = [i \in Calls |-> IdleCall]
    /\ PipelineIdle /\ AppIdle
    /\ proj = NotInUse /\ pixel = NotInUse /\ dat = NotInUse

\* Lines 151-196: the invocation runs without a pause up to await Promise.all.
Invoke(i, p) ==
    /\ calls[i].pc = "idle"
    /\ calls' = WithRaster(
          [calls EXCEPT ![i] =
              [pc |-> "await", params |-> p, full |-> <<>>,
               tiles |-> [t \in GridTiles(p) |->
                            [st |-> "pending", err |-> NoError, tile |-> NoTile]],
               allState |-> [st |-> IF GridTiles(p) = {} THEN "fulfilled" ELSE "pending",
                             reason |-> NoError],
               result |-> NoResult, error |-> NoError]],
          i, [k \in 0..(ToLength(fullLength(p)) - 1) |-> 0])
    /\ UNCHANGED <<vars, appVars, proj, pixel, dat>>

\* Lines 128-143 and 186-192: a tile of invocation i arrives, decodes and is copied.
CallTileCopy(i, t) ==
    /\ calls[i].pc # "idle"
    /\ calls[i].tiles[t].st = "pending"
    /\ LET p == calls[i].params
           d == DecodeTile(TileImageData(CallTerrain, t[1], t[2]))
           ts == [calls[i].tiles EXCEPT ![t].st = "copied", ![t].tile = d]
       IN calls' = WithRaster(
              [calls EXCEPT ![i].tiles = ts,
                            ![i].allState = AllOnFulfil(calls[i].allState, ts)],
              i, CopyTile(RasterAt(calls, i), p, t, d))
    /\ UNCHANGED <<vars, appVars, proj, pixel, dat>>

\* Line 129: a tile of invocation i is answered with an error status.
CallTileFail(i, t, status) ==
    /\ calls[i].pc # "idle"
    /\ calls[i].tiles[t].st = "pending"
    /\ LET err == TileStatusError(calls[i].params.zoom, t[1], t[2], status)
       IN calls' = [calls EXCEPT ![i].tiles[t].st = "failed",
                                 ![i].tiles[t].err = err,
                                 ![i].allState = AllOnReject(calls[i].allState, err)]
    /\ UNCHANGED <<vars, appVars, proj, pixel, dat>>

\* Lines 196-266: the await returns and the invocation runs without a pause to
\* its return (or to the exception of the source canvas).
CallResume(i) ==
    /\ calls[i].pc = "await"
    /\ calls[i].allState.st = "fulfilled"
    /\ LET p == calls[i].params
           c == CropStage(RasterAt(calls, i), p)
       IN calls' = IF ResizeError(c) # NoError
                   THEN [calls EXCEPT ![i].pc = "rejected", ![i].error = ResizeError(c)]
                   ELSE [calls EXCEPT
                           ![i].pc = "done",
                           ![i].result =
                               MakeResult(Resample(Normalize(c), c.cw, c.ch, p.outputPx), c, p)]
    /\ UNCHANGED <<vars, appVars, proj, pixel, dat>>

\* Line 196: the await throws the first rejection.
CallReject(i) ==
    /\ calls[i].pc = "await"
    /\ calls[i].allState.st = "rejected"
    /\ calls' = [calls EXCEPT ![i].pc = "rejected", ![i].error = calls[i].allState.reason]
    /\ UNCHANGED <<vars, appVars, proj, pixel, dat>>

CallsNext ==
    \/ \E i \in Calls : \E p \in CallParams : Invoke(i, p)
    \/ \E i \in Calls : \E t \in DOMAIN calls[i].tiles : CallTileCopy(i, t)
    \/ \E i \in Calls : \E t \in DOMAIN calls[i].tiles : CallTileFail(i, t, 404)
    \/ \E i \in Calls : CallResume(i)
    \/ \E i \in Calls : CallReject(i)

SpecCalls == CallsInit /\ [][CallsNext]_allVars

\* What an invocation with input p returns when it runs alone and every tile
\* arrives: its result, or the error of its source canvas.
AloneOutcome(p) ==
    LET buf == StitchInRequestOrder([k \in 0..(ToLength(fullLength(p)) - 1) |-> 0],
                                    p, CallTerrain, 1)
        c == CropStage(buf, p)
    IN IF ResizeError(c) # NoError
       THEN [result |-> NoResult, error |-> ResizeError(c)]
       ELSE [result |-> MakeResult(Resample(Normalize(c), c.cw, c.ch, p.outputPx), c, p),
             error |-> NoError]

AloneTable == [p \in CallParams |-> AloneOutcome(p)]

\* The errors of the failed tiles of invocation i.
OwnTileErrors(i) ==
    { calls[i].tiles[t].err : t \in { u \in DOMAIN calls[i].tiles :
                                        calls[i].tiles[u].st = "failed" } }

\* C17: an invocation that returns, returns the result it returns when run
\* alone; one that rejects, rejects with the error of one of its own tiles or
\* with the error it rejects with when run alone; every step changes the state
\* of one invocation only, so starting or running one invocation neither
\* cancels nor alters another.
C17_InvocationsIndependent ==
    /\ [](\A i \in Calls :
            /\ calls[i].pc = "done" =>
                 /\ calls[i].result = AloneTable[calls[i].params].result
                 /\ calls[i].error = NoError
            /\ calls[i].pc = "rejected" =>
                 /\ calls[i].result = NoResult
                 /\ IF OwnTileErrors(i) = {}
                    THEN calls[i].error = AloneTable[calls[i].params].error
                    ELSE calls[i].error \in OwnTileErrors(i))
    /\ [][\A i, j \in Calls : (i # j /\ calls'[i] # calls[i]) => calls'[j] = calls[j]]_allVars

\* Two invocations are in flight, each with a tile copied and a tile pending:
\* the later of the two copies ran while both were in flight.
C17_Witness ==
    \A i \in {1, 2} :
        /\ calls[i].pc = "await"
        /\ \E t \in DOMAIN calls[i].tiles : calls[i].tiles[t].st = "copied"
        /\ \E t \in DOMAIN calls[i].tiles : calls[i].tiles[t].st = "pending"

-----------------------------------------------------------------------------
(* heightmapToDat: the .dat text of a heightmap *)

\* A text is a sequence of characters.
Digits == <<"0", "1", "2", "3", "4", "5", "6", "7", "8", "9">>

\* String(v) of an integer v >= 0, as row.join renders a number.
RECURSIVE ToDecimal(_)
ToDecimal(v) ==
    IF v < 10 THEN <<Digits[v + 1]>>
    ELSE ToDecimal(v \div 10) \o <<Digits[(v % 10) + 1]>>

\* Array.prototype.join of a sequence of texts.
RECURSIVE Join(_, _)
Join(parts, sep) ==
    IF parts = <<>> THEN <<>>
    ELSE IF Len(parts) = 1 THEN parts[1]
    ELSE parts[1] \o <<sep>> \o Join(Tail(parts), sep)

\* Variant of heightmapToDat: the rows written top-down, without the flip.
heightmapToDat_TopDown(hm, width, height) ==
    LET row(y) == [x \in 1..width |-> ToDecimal(hm[y * width + (x - 1)])]
        lines == [k \in 1..height |-> Join(row(k - 1), " ")]
    IN Join(lines, "\n") \o <<"\n">>

\* The loop runs y from height - 1 down to 0: the k-th line pushed is row height - k.
heightmapToDat(hm, width, height) ==
    LET row(y) == [x \in 1..width |-> ToDecimal(hm[y * width + (x - 1)])]
        lines == [k \in 1..height |-> Join(row(height - k), " ")]
    IN Join(lines, "\n") \o <<"\n">>

\* Heightmaps are drawn with sides 1..MaxDatSide and cells from GraySamples.
MaxDatSide == 2
GraySamples == {0, 42, 255}

DatInit ==
    /\ dat \in UNION { { [stage |-> "heightmap", heightmap |-> hm, width |-> w,
                          height |-> h, text |-> <<>>] :
                            hm \in [0..(w * h - 1) -> GraySamples] } :
                       w \in 1..MaxDatSide, h \in 1..MaxDatSide }
    /\ PipelineIdle /\ AppIdle
    /\ proj = NotInUse /\ pixel = NotInUse /\ calls = NotInUse

WriteDat ==
    /\ dat.stage = "heightmap"
    /\ dat' = [dat EXCEPT !.stage = "text",
                          !.text = heightmapToDat(dat.heightmap, dat.width, dat.height)]
    /\ UNCHANGED <<vars, appVars, proj, pixel, calls>>

DatNext == WriteDat

SpecDat == DatInit /\ [][DatNext]_allVars

\* The pieces of a text between the occurrences of the character sep.
RECURSIVE Split(_, _)
Split(text, sep) ==
    IF \A i \in 1..Len(text) : text[i] # sep THEN <<text>>
    ELSE LET i == CHOOSE j \in 1..Len(text) :
                    text[j] = sep /\ \A k \in 1..(j - 1) : text[k] # sep
         IN <<SubSeq(text, 1, i - 1)>> \o Split(SubSeq(text, i + 1, Len(text)), sep)

\* The integer a sequence of decimal digits denotes.
RECURSIVE ParseDecimal(_)
ParseDecimal(ds) ==
    IF ds = <<>> THEN 0
    ELSE ParseDecimal(SubSeq(ds, 1, Len(ds) - 1)) * 10
           + (CHOOSE d \in 0..9 : Digits[d + 1] = ds[Len(ds)])

IsDecimal(ds) ==
    /\ ds # <<>>
    /\ \A i \in 1..Len(ds) : \E d \in 0..9 : Digits[d + 1] = ds[i]

\* C18: the text of a heightmap of width w and height h consists of h lines,
\* each ended by a newline and made of w integers separated by single spaces;
\* the integer at position x of line k (both 0-based) is the gray value of
\* row h - 1 - k, column x of the heightmap.
C18_DatLayout ==
    dat.stage = "text" =>
        /\ dat.text # <<>> /\ dat.text[Len(dat.text)] = "\n"
        /\ LET lines == Split(SubSeq(dat.text, 1, Len(dat.text) - 1), "\n")
           IN /\ Len(lines) = dat.height
              /\ \A k \in 0..(dat.height - 1) :
                   LET cells == Split(lines[k + 1], " ")
                   IN /\ Len(cells) = dat.width
                      /\ \A x \in 0..(dat.width - 1) :
                           /\ IsDecimal(cells[x + 1])
                           /\ ParseDecimal(cells[x + 1])
                                = dat.heightmap[(dat.height - 1 - k) * dat.width + x]

\* The text of a heightmap of several rows and columns whose rows all differ.
C18_Witness ==
    /\ dat.stage = "text"
    /\ dat.width = 2 /\ dat.height = 2
    /\ dat.heightmap = [i \in 0..3 |-> <<0, 42, 255, 0>>[i + 1]]
    /\ dat.text = <<"2", "5", "5", " ", "0", "\n", "0", " ", "4", "2", "\n">>

\* ---------------------------------------------------------------------
\* useOpenscadWorker: the hook that runs one compile at a time in a
\* worker created for the run.
\* ---------------------------------------------------------------------

\* JavaScript's null, by the kind of value the slot otherwise holds: a run
\* id or a worker (both counted from 1), binary or text data, a message.
Null == 0
NullData == <<>>
NullText == "null"

\* Accepted compile runs (the run-id counter stops here).
MaxRunId == 2

\* The log is kept by its length modulo LogsModulus: a handler appends at
\* most four lines, so every append changes the value.
LogsModulus == 5

RunIds == 1..MaxRunId

\* The payloads a worker computes for a run.
StlOf(runId) == <<"stl", runId>>
ScadOf(runId) == <<"scad", runId>>

CompilingStatus == "Compiling STL..."
ExitCodeMessage == "OpenSCAD exited with code 1"

\* The messages that can reach worker.onmessage: WorkerResponse of every
\* type and run id.
WorkerResponses ==
    [type : {"status", "log", "scadCode", "result", "error"}, runId : RunIds]

IsTerminal(msg) == msg.type \in {"result", "error"}

\* The record of the handler that ran last; a specification that starts
\* with the record Unobserved keeps it.
Unobserved == [name |-> "unobserved", acted |-> FALSE]
Observed(e) == IF event.name = Unobserved.name THEN event ELSE e

\* The state of the hook after its first render.
HookInit ==
    [ stlData |-> NullData, lastResultMeta |-> Null, scadCode |-> NullData,
      status |-> "", isCompiling |-> FALSE, error |-> NullText, logs |-> 0,
      workerRef |-> Null, activeRunId |-> Null, nextRunId |-> 0,
      runStats |-> {}, mounted |-> TRUE ]

\* A Worker as its constructor leaves it, before the handlers are assigned.
NewWorker == [handlers |-> FALSE, terminated |-> FALSE, inbox |-> <<>>]

\* appendLog, n times.
appendLog(h, n) == [h EXCEPT !.logs = (@ + n) % LogsModulus]

\* stopLongTaskObserver(runId): the summary line is logged when the run's
\* statistics exist. The observer itself only feeds those statistics and is
\* left out.
stopLongTaskObserver(h, runId) ==
    IF runId \in h.runStats THEN appendLog(h, 1) ELSE h

\* startLongTaskObserver(runId): whether or not the browser supports the
\* observer, every branch logs one line.
startLongTaskObserver(h, runId) == appendLog(h, 1)

\* cleanupWorker(worker): the target is the argument or else workerRef; its
\* handlers are detached, it is terminated (which discards the messages it
\* has not taken), and workerRef is cleared when it holds the target. The
\* result is the pair of the hook and the workers.
cleanupWorker_KeepRef(h, ws, worker) ==
    LET target == IF worker # Null THEN worker ELSE h.workerRef
    IN  IF target = Null
        THEN [hook |-> h, workers |-> ws]
        ELSE [hook |-> h,
              workers |-> [ws EXCEPT ![target] =
                              [@ EXCEPT !.handlers = FALSE, !.terminated = TRUE, !.inbox = <<>>]]]

cleanupWorker(h, ws, worker) ==
    LET target == IF worker # Null THEN worker ELSE h.workerRef
    IN  IF target = Null
        THEN [hook |-> h, workers |-> ws]
        ELSE [hook |-> IF h.workerRef = target THEN [h EXCEPT !.workerRef = Null] ELSE h,
              workers |-> [ws EXCEPT ![target] =
                              [@ EXCEPT !.handlers = FALSE, !.terminated = TRUE, !.inbox = <<>>]]]

\* ensureWorker(): the worker of workerRef, or else a new worker with the
\* three handlers assigned.
ensureWorker(h, ws) ==
    IF h.workerRef # Null
    THEN [hook |-> h, workers |-> ws, worker |-> h.workerRef]
    ELSE [hook |-> [h EXCEPT !.workerRef = Len(ws) + 1],
          workers |-> Append(ws, [NewWorker EXCEPT !.handlers = TRUE]),
          worker |-> Len(ws) + 1]

\* The body of compile(request) once the call is accepted.
StartRun_ClearOutputs(h, ws, request) ==
    LET runId == h.nextRunId + 1
        h1 == [h EXCEPT !.nextRunId = runId, !.activeRunId = runId,
                        !.runStats = @ \cup {runId},
                        !.isCompiling = TRUE, !.error = NullText,
                        !.lastResultMeta = Null, !.stlData = NullData, !.scadCode = NullData,
                        !.status = "Starting OpenSCAD worker..."]
        h2 == startLongTaskObserver(appendLog(h1, 1), runId)
        ew == ensureWorker(h2, ws)
    IN  [hook |-> ew.hook, workers |-> ew.workers,
         frame |-> [runId |-> runId, worker |-> ew.worker, request |-> request]]

StartRun(h, ws, request) ==
    LET runId == h.nextRunId + 1
        h1 == [h EXCEPT !.nextRunId = runId, !.activeRunId = runId,
                        !.runStats = @ \cup {runId},
                        !.isCompiling = TRUE, !.error = NullText,
                        !.lastResultMeta = Null,
                        !.status = "Starting OpenSCAD worker..."]
        h2 == startLongTaskObserver(appendLog(h1, 1), runId)
        ew == ensureWorker(h2, ws)
    IN  [hook |-> ew.hook, workers |-> ew.workers,
         frame |-> [runId |-> runId, worker |-> ew.worker, request |-> request]]

\* The guard of compile(): a call is accepted when no run is active.
CompileAccepts_Always(h) == TRUE

CompileAccepts(h) == h.activeRunId = Null

\* compile(request). The counter of run ids is capped at MaxRunId.
compile(request) ==
    /\ hook.mounted
    /\ IF ~CompileAccepts(hook)
       THEN /\ event' = Observed([name |-> "compile", acted |-> FALSE])
            /\ UNCHANGED <<hook, workers, frames>>
       ELSE /\ hook.nextRunId < MaxRunId
            /\ LET run == StartRun(hook, workers, request)
               IN  /\ hook' = run.hook
                   /\ workers' = run.workers
                   /\ frames' = frames \cup {run.frame}
            /\ event' = Observed([name |-> "compile", acted |-> TRUE])

\* The guard of the animation-frame callback of compile().
FramePosts(h, f) == f.runId = h.activeRunId

\* postMessage on a worker: a terminated worker takes no message.
postMessage(ws, worker, message) ==
    IF ws[worker].terminated THEN ws
    ELSE [ws EXCEPT ![worker].inbox = Append(@, message)]

\* The animation-frame callback that compile() requested.
AnimationFrame(f) ==
    /\ f \in frames
    /\ frames' = frames \ {f}
    /\ IF FramePosts(hook, f)
       THEN /\ hook' = appendLog(hook, 1)
            /\ workers' = postMessage(workers, f.worker,
                                      [request |-> f.request, runId |-> f.runId])
            /\ event' = Observed([name |-> "frame", acted |-> TRUE])
       ELSE /\ event' = Observed([name |-> "frame", acted |-> FALSE])
            /\ UNCHANGED <<hook, workers>>

\* What ends a run: the fields every terminal handler sets, then the
\* worker's cleanup.
EndRun_KeepActive(h, ws, runId, worker) ==
    LET h1 == stopLongTaskObserver([h EXCEPT !.isCompiling = FALSE], runId)
        h2 == [h1 EXCEPT !.runStats = @ \ {runId}]
    IN  cleanupWorker(h2, ws, worker)

EndRun(h, ws, runId, worker) ==
    LET h1 == stopLongTaskObserver([h EXCEPT !.isCompiling = FALSE], runId)
        h2 == [h1 EXCEPT !.runStats = @ \ {runId}, !.activeRunId = Null]
    IN  cleanupWorker(h2, ws, worker)

\* The guard of worker.onmessage: messages of other runs are dropped.
MessageAccepted_Always(h, msg) == TRUE

MessageAccepted(h, msg) == msg.runId = h.activeRunId

\* worker.onmessage for an accepted message.
HandleMessage(h, ws, msg) ==
    CASE msg.type = "status" ->
            [hook |-> [h EXCEPT !.status = CompilingStatus], workers |-> ws]
      [] msg.type = "log" ->
            [hook |-> appendLog(h, 1), workers |-> ws]
      [] msg.type = "scadCode" ->
            [hook |-> [h EXCEPT !.scadCode = ScadOf(msg.runId)], workers |-> ws]
      [] msg.type = "result" ->
            EndRun([appendLog(h, 3) EXCEPT !.lastResultMeta = msg.runId,
                                           !.stlData = StlOf(msg.runId),
                                           !.status = "STL ready!"],
                   ws, msg.runId, Null)
      [] msg.type = "error" ->
            EndRun([appendLog(h, 1) EXCEPT !.error = ExitCodeMessage, !.status = ""],
                   ws, msg.runId, Null)

\* A worker whose handlers can run: they are attached and the worker lives.
Listening(w) == w \in DOMAIN workers /\ workers[w].handlers /\ ~workers[w].terminated

\* worker.onmessage(e) of worker w.
OnMessage(w, msg) ==
    /\ Listening(w)
    /\ IF MessageAccepted(hook, msg)
       THEN LET after == HandleMessage(hook, workers, msg)
            IN  /\ hook' = after.hook
                /\ workers' = after.workers
                /\ event' = Observed([name |-> msg.type, acted |-> TRUE])
       ELSE /\ event' = Observed([name |-> msg.type, acted |-> FALSE])
            /\ UNCHANGED <<hook, workers>>
    /\ UNCHANGED frames

\* worker.onerror and worker.onmessageerror: the same handler but for the
\* error text.
HandleWorkerError(h, ws, w, message) ==
    LET failedRunId == h.activeRunId
        h1 == [h EXCEPT !.error = message, !.status = "", !.isCompiling = FALSE]
        h2 == IF failedRunId # Null
              THEN [stopLongTaskObserver(appendLog(h1, 1), failedRunId)
                       EXCEPT !.runStats = @ \ {failedRunId}]
              ELSE h1
    IN  cleanupWorker([h2 EXCEPT !.activeRunId = Null], ws, w)

\* worker.onerror(e) of worker w; an empty e.message reads "Worker error".
OnError(w, text) ==
    /\ Listening(w)
    /\ LET after == HandleWorkerError(hook, workers, w,
                                      IF text = "" THEN "Worker error" ELSE text)
       IN  hook' = after.hook /\ workers' = after.workers
    /\ event' = Observed([name |-> "onerror", acted |-> TRUE])
    /\ UNCHANGED frames

\* worker.onmessageerror() of worker w.
OnMessageError(w) ==
    /\ Listening(w)
    /\ LET after == HandleWorkerError(hook, workers, w, "Worker message error")
       IN  hook' = after.hook /\ workers' = after.workers
    /\ event' = Observed([name |-> "onmessageerror", acted |-> TRUE])
    /\ UNCHANGED frames

\* The cleanup of the hook's effect, run when the component unmounts.
Unmount ==
    /\ hook.mounted
    /\ LET after == cleanupWorker([hook EXCEPT !.mounted = FALSE], workers, Null)
       IN  hook' = after.hook /\ workers' = after.workers
    /\ event' = Observed([name |-> "unmount", acted |-> TRUE])
    /\ UNCHANGED frames

\* The hook on its own: compile() is called at any time, and the workers
\* send any message and fail at any time.
UnitRequests == {"request"}
ErrorTexts == {"", "Script error."}

hookRest == <<vars, proj, pixel, calls, dat, wk, pd>>

HookSpecInit ==
    /\ hook = HookInit
    /\ workers = <<>>
    /\ frames = {}
    /\ event = [name |-> "mount", acted |-> TRUE]
    /\ app = NotInUse /\ wk = NotInUse /\ pd = NotInUse
    /\ PipelineIdle
    /\ proj = NotInUse /\ pixel = NotInUse /\ calls = NotInUse /\ dat = NotInUse

CallCompile == \E request \in UnitRequests : compile(request) /\ UNCHANGED <<hookRest, app>>
RunFrame == \E f \in frames : AnimationFrame(f) /\ UNCHANGED <<hookRest, app>>
DeliverMessage ==
    \E w \in DOMAIN workers, msg \in WorkerResponses :
        OnMessage(w, msg) /\ UNCHANGED <<hookRest, app>>
FireError ==
    \E w \in DOMAIN workers, text \in ErrorTexts :
        OnError(w, text) /\ UNCHANGED <<hookRest, app>>
FireMessageError ==
    \E w \in DOMAIN workers : OnMessageError(w) /\ UNCHANGED <<hookRest, app>>
UnmountHook == Unmount /\ UNCHANGED <<hookRest, app>>

HookNext ==
    \/ CallCompile
    \/ RunFrame
    \/ DeliverMessage
    \/ FireError
    \/ FireMessageError
    \/ UnmountHook

SpecHook == HookSpecInit /\ [][HookNext]_allVars

\* A step of the hook's handlers, told by the handler that ran.
AcceptedCompile == event'.name = "compile" /\ event'.acted /\ hook' # hook
TerminalNames == {"result", "error", "onerror", "onmessageerror"}
ErrorNames == {"error", "onerror", "onmessageerror"}
TerminalStep == event'.name \in TerminalNames /\ event'.acted /\ hook' # hook
ErrorStep == event'.name \in ErrorNames /\ event'.acted /\ hook' # hook

\* C24: a compile() call made while a run is active changes nothing: the
\* run-id counter, the active run id, isCompiling, status, error, logs,
\* stlData and scadCode keep their values, no worker is created, no frame
\* is requested and no message is posted. Hence the runs with statistics
\* are at most the active one, and an accepted call takes a run id greater
\* than every id handed out before.
C24_CompileWhileActiveIgnored ==
    /\ [](hook.runStats \subseteq {hook.activeRunId} /\ Cardinality(hook.runStats) <= 1)
    /\ [][ /\ (\E request \in UnitRequests : compile(request)) /\ hook.activeRunId # Null
              => UNCHANGED <<hook, workers, frames>>
           /\ AcceptedCompile
              => /\ hook.activeRunId = Null
                 /\ hook'.activeRunId = hook.nextRunId + 1
                 /\ hook'.nextRunId = hook'.activeRunId
                 /\ \A f \in frames : f.runId < hook'.activeRunId
         ]_allVars

\* A compile() call was made during a run and ignored.
C24_Witness ==
    /\ event = [name |-> "compile", acted |-> FALSE]
    /\ hook.activeRunId # Null /\ hook.isCompiling

\* C25: a worker message whose runId is not the active run id leaves the
\* hook's state (status, logs, scadCode, stlData, error, isCompiling, the
\* active run id and the rest) as it was, and a request is posted to a
\* worker only by the animation-frame callback of the run that is active
\* when the callback runs.
C25_StaleMessagesDropped ==
    [][ /\ \A w \in DOMAIN workers, msg \in WorkerResponses :
              OnMessage(w, msg) /\ msg.runId # hook.activeRunId => hook' = hook
        /\ \A f \in frames :
              AnimationFrame(f) /\ f.runId # hook.activeRunId
              => hook' = hook /\ workers' = workers
        /\ (\E w \in DOMAIN workers : Len(workers'[w].inbox) > Len(workers[w].inbox))
              => \E f \in frames :
                    /\ f.runId = hook.activeRunId
                    /\ AnimationFrame(f)
                    /\ workers'[f.worker].inbox =
                          Append(workers[f.worker].inbox,
                                 [request |-> f.request, runId |-> f.runId])
      ]_allVars

\* A message of another run was dropped during a run, and the frame of an
\* earlier run is still to come.
C25_Witness ==
    /\ event.name \in {"status", "log", "scadCode", "result", "error"}
    /\ ~event.acted
    /\ hook.activeRunId # Null
    /\ \E f \in frames : f.runId # hook.activeRunId

\* C26: while the hook is mounted, a run is active exactly when isCompiling
\* is true and exactly when workerRef holds a worker, which then listens;
\* every terminal event clears the active run id, sets isCompiling false
\* and terminates the worker with its handlers detached; every accepted
\* run gets a worker that did not exist before.
C26_RunCompilingWorkerAgree ==
    /\ [](hook.mounted =>
            /\ (hook.activeRunId # Null) <=> hook.isCompiling
            /\ (hook.activeRunId # Null) <=> (hook.workerRef # Null)
            /\ hook.workerRef # Null => Listening(hook.workerRef)
            /\ \A w \in DOMAIN workers : Listening(w) => w = hook.workerRef)
    /\ [][ /\ TerminalStep
              => /\ hook'.activeRunId = Null /\ ~hook'.isCompiling
                 /\ hook'.workerRef = Null
                 /\ hook.workerRef # Null
                 /\ workers'[hook.workerRef].terminated
                 /\ ~workers'[hook.workerRef].handlers
           /\ AcceptedCompile
              => /\ hook'.workerRef \notin DOMAIN workers
                 /\ workers'[hook'.workerRef].handlers
                 /\ ~workers'[hook'.workerRef].terminated
                 /\ workers'[hook'.workerRef].inbox = <<>>
         ]_allVars

\* A second run is active with its own worker after the first run's worker
\* was terminated.
C26_Witness ==
    /\ hook.mounted /\ hook.activeRunId = 2 /\ hook.isCompiling
    /\ hook.workerRef = 2 /\ workers[1].terminated /\ ~workers[1].handlers

\* C29: an accepted compile() leaves stlData and scadCode as they were; a
\* run that ends in an error message, worker.onerror or
\* worker.onmessageerror leaves stlData as it was; and stlData changes only
\* in the step that handles a result message of the active run, where it
\* becomes that run's STL and lastResultMeta names the run.
C29_OutputsKeptWhileCompiling ==
    [][ /\ AcceptedCompile
           => hook'.stlData = hook.stlData /\ hook'.scadCode = hook.scadCode
        /\ ErrorStep => hook'.stlData = hook.stlData
        /\ hook'.stlData # hook.stlData
           => /\ hook.activeRunId # Null
              /\ \E w \in DOMAIN workers :
                    OnMessage(w, [type |-> "result", runId |-> hook.activeRunId])
              /\ hook'.stlData = StlOf(hook.activeRunId)
              /\ hook'.lastResultMeta = hook.activeRunId
      ]_allVars

\* The second run is compiling while the first run's STL and code are still
\* the outputs.
C29_Witness ==
    /\ hook.isCompiling /\ hook.activeRunId = 2
    /\ hook.stlData = StlOf(1) /\ hook.scadCode = ScadOf(1)
    /\ hook.lastResultMeta = Null

\* ---------------------------------------------------------------------
\* The mounted hook with a worker that answers the request it was sent,
\* under fair scheduling: the browser runs a requested animation-frame
\* callback, and a worker that has taken a request posts its terminal
\* message. Worker errors may occur at any time and are not required to.
\* ---------------------------------------------------------------------

\* A message of worker w about the request it was sent.
Reply(w, type) == [type |-> type, runId |-> workers[w].inbox[1].runId]

WorkerReports ==
    \E w \in DOMAIN workers, type \in {"status", "log", "scadCode"} :
        /\ workers[w].inbox # <<>>
        /\ OnMessage(w, Reply(w, type))
        /\ UNCHANGED <<hookRest, app>>

WorkerFinishes ==
    \E w \in DOMAIN workers, type \in {"result", "error"} :
        /\ workers[w].inbox # <<>>
        /\ OnMessage(w, Reply(w, type))
        /\ UNCHANGED <<hookRest, app>>

HookLiveNext ==
    \/ CallCompile
    \/ RunFrame
    \/ WorkerReports
    \/ WorkerFinishes
    \/ FireError
    \/ FireMessageError

SpecHookLive ==
    /\ HookSpecInit
    /\ [][HookLiveNext]_allVars
    /\ WF_allVars(RunFrame)
    /\ WF_allVars(WorkerFinishes)

\* C28: every accepted compile() finishes: when the animation-frame
\* callback runs and the worker posts its terminal message (or an error
\* event fires), an active run leads to a state with isCompiling false and
\* no active run, in which compile() accepts the next call.
C28_RunsFinish ==
    \A r \in RunIds :
        (hook.activeRunId = r)
            ~> (~hook.isCompiling /\ hook.activeRunId = Null /\ CompileAccepts(hook))

\* A second call was accepted after the first run ended with its result.
C28_Witness ==
    /\ event = [name |-> "compile", acted |-> TRUE]
    /\ hook.nextRunId = 2 /\ hook.activeRunId = 2
    /\ hook.stlData = StlOf(1) /\ workers[1].terminated

\* ---------------------------------------------------------------------
\* The worker script: self.onmessage with compileScadToStl. A request runs
\* in three synchronous stretches: from the message to the await of the
\* OpenSCAD instance, from the instance to the settlement of
\* compileScadToStl, and the handler's continuation after its await.
\* ---------------------------------------------------------------------

\* Requests that one worker receives.
MaxRequests == 2

\* Lines that OpenSCAD prints during callMain.
MaxPrints == 1

\* Where a request can throw before the instance is awaited, and after.
EarlySites == {"heightmapToDat", "generateScad"}
LateSites == {"writeFile", "callMain", "exitCode", "readFile"}
NoThrow == "none"

\* The message of the error thrown at a site.
ErrorAt(site) ==
    CASE site = "heightmapToDat" -> "TypeError"
      [] site = "generateScad" -> "TypeError"
      [] site = "createInstance" -> "createOpenSCAD failed"
      [] site = "writeFile" -> "ErrnoError"
      [] site = "callMain" -> "OpenSCAD crashed"
      [] site = "exitCode" -> ExitCodeMessage
      [] site = "readFile" -> "Failed to read STL output"

\* post(msg): the message gets the runId of the request the closure belongs
\* to. The messages are kept per request, in the order of posting.
post_NoRunId(out, runId, type, message) ==
    Append(out, [runId |-> Null, type |-> type, message |-> message])

post(out, runId, type, message) ==
    Append(out, [runId |-> runId, type |-> type, message |-> message])

RECURSIVE postAll(_, _, _)
postAll(out, runId, msgs) ==
    IF msgs = <<>> THEN out
    ELSE postAll(post(out, runId, msgs[1][1], msgs[1][2]), runId, Tail(msgs))

\* The catch clause of self.onmessage.
Caught_ThenResult(message) ==
    << <<"log", "ERROR">>, <<"error", message>>, <<"result", "stl">> >>

Caught(message) == << <<"log", "ERROR">>, <<"error", message>> >>

\* The messages of the first stretch, up to a throw at the given site or to
\* the await inside compileScadToStl.
FirstStretch(site) ==
    LET toDat == << <<"status", "Generating heightmap data...">> >>
        toScad == toDat \o << <<"log", ".dat generated">> >>
        toCompile == toScad \o << <<"scadCode", "code">>,
                                  <<"log", "OpenSCAD code generated">>,
                                  <<"status", CompilingStatus>>,
                                  <<"log", "Initializing OpenSCAD WASM...">> >>
    IN  CASE site = "heightmapToDat" -> toDat \o Caught(ErrorAt(site))
          [] site = "generateScad" -> toScad \o Caught(ErrorAt(site))
          [] OTHER -> toCompile

\* The log lines of compileScadToStl once the instance exists, up to a
\* throw at the given site or to its return.
Printed(prints) == [k \in 1..prints |-> <<"log", "[OpenSCAD]">>]

SecondStretch(site, prints) ==
    LET ready == << <<"log", "WASM ready">>, <<"log", "WASM heap before render">> >>
        filesWritten == ready \o << <<"log", "Files filesWritten">>,
                               <<"log", "Rendering with Manifold backend...">> >>
                         \o Printed(prints)
        rendered == filesWritten \o << <<"log", "Render done">>,
                                  <<"log", "WASM heap after render">> >>
    IN  CASE site = "writeFile" -> ready
          [] site = "callMain" -> filesWritten \o << <<"log", "callMain threw">> >>
          [] site = "exitCode" -> rendered
          [] site = "readFile" -> rendered \o << <<"log", "Failed to read output.stl">> >>
          [] OTHER -> rendered \o << <<"log", "STL">> >>

\* The handler's continuation after await compileScadToStl.
ThirdStretch(thrown) ==
    IF thrown = NullText
    THEN << <<"log", "Total">>, <<"result", "stl">> >>
    ELSE Caught(thrown)

workerRest == <<vars, proj, pixel, calls, dat, app, hook, workers, frames, event, pd>>

WorkerInit ==
    /\ wk = <<>>
    /\ app = NotInUse /\ hook = NotInUse /\ workers = NotInUse /\ frames = NotInUse
    /\ event = NotInUse /\ pd = NotInUse
    /\ PipelineIdle
    /\ proj = NotInUse /\ pixel = NotInUse /\ calls = NotInUse /\ dat = NotInUse

\* self.onmessage(e) up to the first await or to the end of the catch
\* clause. Run ids reach a worker in the order compile() issues them.
Receive(runId, site) ==
    /\ Len(wk) < MaxRequests
    /\ \A req \in DOMAIN wk : wk[req].runId < runId
    /\ wk' = Append(wk,
                    [runId |-> runId,
                     pc |-> IF site \in EarlySites THEN "done" ELSE "createInstance",
                     thrown |-> IF site \in EarlySites THEN ErrorAt(site) ELSE NullText,
                     posted |-> postAll(<<>>, runId, FirstStretch(site))])
    /\ UNCHANGED workerRest

\* createInstance rejects: compileScadToStl rejects with its error.
InstanceFails(req) ==
    /\ req \in DOMAIN wk
    /\ wk[req].pc = "createInstance"
    /\ wk' = [wk EXCEPT ![req].pc = "settled",
                        ![req].thrown = ErrorAt("createInstance")]
    /\ UNCHANGED workerRest

\* createInstance resolves: compileScadToStl runs to its return or throw.
InstanceReady(req, site, prints) ==
    /\ req \in DOMAIN wk
    /\ wk[req].pc = "createInstance"
    /\ wk' = [wk EXCEPT ![req].pc = "settled",
                        ![req].thrown = IF site = NoThrow THEN NullText ELSE ErrorAt(site),
                        ![req].posted = postAll(@, wk[req].runId,
                                                SecondStretch(site, prints))]
    /\ UNCHANGED workerRest

\* The handler resumes after await compileScadToStl.
Resume(req) ==
    /\ req \in DOMAIN wk
    /\ wk[req].pc = "settled"
    /\ wk' = [wk EXCEPT ![req].pc = "done",
                        ![req].posted = postAll(@, wk[req].runId,
                                                ThirdStretch(wk[req].thrown))]
    /\ UNCHANGED workerRest

WorkerNext ==
    \/ \E runId \in RunIds, site \in EarlySites \cup {NoThrow} : Receive(runId, site)
    \/ \E req \in 1..MaxRequests : InstanceFails(req)
    \/ \E req \in 1..MaxRequests, site \in LateSites \cup {NoThrow}, prints \in 0..MaxPrints :
          InstanceReady(req, site, prints)
    \/ \E req \in 1..MaxRequests : Resume(req)

SpecWorker == WorkerInit /\ [][WorkerNext]_allVars

\* The positions, among the messages of a request, of those of a type.
PostedType(req, types) == {k \in DOMAIN wk[req].posted : wk[req].posted[k].type \in types}

\* The messages that compileScadToStl and the handler post once the
\* compilation has started.
CompilationMessages ==
    {"Initializing OpenSCAD WASM...", "WASM ready", "WASM heap before render",
     "Files written", "Rendering with Manifold backend...", "[OpenSCAD]",
     "callMain threw", "Render done", "WASM heap after render",
     "Failed to read output.stl", "STL", "Total"}

\* C27: for every request the worker posts exactly one terminal message
\* (result or error, never both) once it is done and none before, and it
\* is the last message of the request; every message carries the request's
\* runId; the scadCode message precedes every message of the compilation;
\* and a request that threw anywhere ends with an error message carrying
\* the error's text and without a result.
C27_OneTerminalMessage ==
    \A req \in DOMAIN wk :
        LET r == wk[req]
            terminal == PostedType(req, {"result", "error"})
        IN  /\ \A k \in DOMAIN r.posted : r.posted[k].runId = r.runId
            /\ r.pc # "done" => terminal = {}
            /\ r.pc = "done"
               => /\ terminal = {Len(r.posted)}
                  /\ IF r.thrown = NullText
                     THEN r.posted[Len(r.posted)].type = "result"
                     ELSE /\ r.posted[Len(r.posted)].type = "error"
                          /\ r.posted[Len(r.posted)].message = r.thrown
            /\ \A k \in DOMAIN r.posted :
                  r.posted[k].message \in CompilationMessages \cup {CompilingStatus}
                  => \E c \in PostedType(req, {"scadCode"}) : c < k
            /\ r.pc \in {"createInstance", "settled"}
               => PostedType(req, {"scadCode"}) # {}

\* Two requests are done in one worker, one with a result and one with an
\* error after a non-zero exit code.
C27_Witness ==
    /\ Len(wk) = 2
    /\ wk[1].pc = "done" /\ wk[2].pc = "done"
    /\ wk[1].thrown = NullText /\ wk[2].thrown = ExitCodeMessage
    /\ wk[1].posted[Len(wk[1].posted)].type = "result"
    /\ wk[2].posted[Len(wk[2].posted)].type = "error"

\* ---------------------------------------------------------------------
\* The App component: the parameter controls, Step 1 (handleStep1 with
\* generateHeightmap and the preview encoding), Step 2 (handleStep2 with
\* the hook's compile) and the .dat download, together with the hook and a
\* worker that answers the request it was sent. React state is the value the
\* latest setter call gave it; the log panes fetchLogs and viewerLogs, which
\* no handler reads, are left out.
\* ---------------------------------------------------------------------

\* The values the Area slider and the Resolution select are set to.
AreaChoices == {20, 30}
ResolutionChoices == {100, 200}

DEFAULT_PARAMS == [areaKm |-> 20, outputPx |-> 200, modelMm |-> 100]

\* What generateHeightmap resolves with for the given parameters: a square
\* heightmap of outputPx pixels. The heightmap and the elevations are named
\* by the parameters they come from.
HeightmapOf(p) ==
    [ heightmap |-> <<"heightmap", p.areaKm, p.outputPx>>,
      width |-> p.outputPx, height |-> p.outputPx,
      elevMin |-> <<"elevMin", p.areaKm, p.outputPx>>,
      elevMax |-> <<"elevMax", p.areaKm, p.outputPx>> ]

\* What heightmapToDataUrl resolves with.
DataUrlOf(hm) == <<"data:image/png", hm.heightmap>>

\* The errors of a Step 1 run.
FetchErrors == {"Failed to fetch tile 12/2125/1459: 503"}
PreviewErrors == {"OffscreenCanvas is not defined"}

\* The state of App after its first render; runs holds the handleStep1
\* invocations in flight.
AppInit ==
    [ params |-> DEFAULT_PARAMS,
      isFetching |-> FALSE, fetchError |-> NullText, previewUrl |-> NullData,
      elevMin |-> NullData, elevMax |-> NullData, heightmapResult |-> NullData,
      step1Done |-> FALSE, runs |-> <<>> ]

\* A sequence without its k-th element.
Without(seq, k) == [j \in 1..(Len(seq) - 1) |-> IF j < k THEN seq[j] ELSE seq[j + 1]]

\* TerrainControls.set(key, value) through onChange = setParams. The
\* controls are enabled at all times.
set(key, value) ==
    /\ app.params[key] # value
    /\ app' = [app EXCEPT !.params[key] = value]
    /\ event' = Observed([name |-> "set", acted |-> TRUE])
    /\ UNCHANGED <<hook, workers, frames, hookRest>>

\* The disabled props of the two buttons of TerrainControls, negated.
Step1Enabled_Always == TRUE

Step1Enabled == ~(app.isFetching \/ hook.isCompiling)

Step2Enabled == ~(~app.step1Done \/ hook.isCompiling \/ app.isFetching)

\* handleStep1 up to await generateHeightmap, with the parameters of the
\* render the click happened in.
ClickStep1 ==
    /\ Step1Enabled
    /\ app' = [app EXCEPT !.isFetching = TRUE, !.fetchError = NullText,
                          !.previewUrl = NullData, !.elevMin = NullData,
                          !.elevMax = NullData, !.heightmapResult = NullData,
                          !.step1Done = FALSE,
                          !.runs = Append(@, [stage |-> "generateHeightmap",
                                              params |-> app.params,
                                              result |-> NullData])]
    /\ event' = Observed([name |-> "step1", acted |-> TRUE])
    /\ UNCHANGED <<hook, workers, frames, hookRest>>

\* generateHeightmap resolves: handleStep1 runs on to await
\* heightmapToDataUrl.
GenerateResolves(k) ==
    /\ k \in DOMAIN app.runs
    /\ app.runs[k].stage = "generateHeightmap"
    /\ LET hm == HeightmapOf(app.runs[k].params)
       IN  app' = [app EXCEPT !.elevMin = hm.elevMin, !.elevMax = hm.elevMax,
                              !.heightmapResult = hm,
                              !.runs[k].stage = "heightmapToDataUrl",
                              !.runs[k].result = hm]
    /\ event' = Observed([name |-> "generateHeightmap", acted |-> TRUE])
    /\ UNCHANGED <<hook, workers, frames, hookRest>>

\* The catch clause of handleStep1.
Step1Catch(a, k, message) ==
    [a EXCEPT !.fetchError = message, !.isFetching = FALSE, !.runs = Without(@, k)]

\* generateHeightmap rejects.
GenerateRejects(k, message) ==
    /\ k \in DOMAIN app.runs
    /\ app.runs[k].stage = "generateHeightmap"
    /\ app' = Step1Catch(app, k, message)
    /\ event' = Observed([name |-> "generateHeightmap", acted |-> FALSE])
    /\ UNCHANGED <<hook, workers, frames, hookRest>>

\* heightmapToDataUrl resolves: handleStep1 runs to its end.
PreviewResolves(k) ==
    /\ k \in DOMAIN app.runs
    /\ app.runs[k].stage = "heightmapToDataUrl"
    /\ app' = [app EXCEPT !.previewUrl = DataUrlOf(app.runs[k].result),
                          !.isFetching = FALSE, !.step1Done = TRUE,
                          !.runs = Without(@, k)]
    /\ event' = Observed([name |-> "heightmapToDataUrl", acted |-> TRUE])
    /\ UNCHANGED <<hook, workers, frames, hookRest>>

\* heightmapToDataUrl rejects.
PreviewRejects(k, message) ==
    /\ k \in DOMAIN app.runs
    /\ app.runs[k].stage = "heightmapToDataUrl"
    /\ app' = Step1Catch(app, k, message)
    /\ event' = Observed([name |-> "heightmapToDataUrl", acted |-> FALSE])
    /\ UNCHANGED <<hook, workers, frames, hookRest>>

\* The request handleStep2 hands to compile(): the stored heightmap with
\* the parameters of the current render.
Step2Request(a) ==
    [ heightmap |-> a.heightmapResult.heightmap,
      width |-> a.heightmapResult.width, height |-> a.heightmapResult.height,
      params |-> [areaKm |-> a.params.areaKm, outputPx |-> a.params.outputPx,
                  modelMm |-> a.params.modelMm,
                  elevMin |-> a.heightmapResult.elevMin,
                  elevMax |-> a.heightmapResult.elevMax] ]

\* handleStep2.
ClickStep2 ==
    /\ Step2Enabled
    /\ IF app.heightmapResult = NullData
       THEN /\ event' = Observed([name |-> "step2", acted |-> FALSE])
            /\ UNCHANGED <<hook, workers, frames>>
       ELSE compile(Step2Request(app))
    /\ UNCHANGED <<app, hookRest>>

\* HeightmapPreview renders the download button only with a preview.
DownloadDatEnabled == app.previewUrl # NullData

\* handleDownloadDat: the stored heightmap is written to a file; the state
\* stays as it is.
ClickDownloadDat ==
    /\ DownloadDatEnabled
    /\ event' = Observed([name |-> "downloadDat", acted |-> app.heightmapResult # NullData])
    /\ UNCHANGED <<app, hook, workers, frames, hookRest>>

\* generateScad: the span of the grid and the footprint of the surface, the
\* latter times gridSpan to stay in whole numbers.
gridSpan(p) == Max(p.outputPx - 1, 1)
FootprintTimesSpan(p, width) == p.modelMm * (width - 1)

AppSpecInit ==
    /\ app = AppInit
    /\ hook = HookInit
    /\ workers = <<>>
    /\ frames = {}
    /\ event = Unobserved /\ wk = NotInUse /\ pd = NotInUse
    /\ PipelineIdle
    /\ proj = NotInUse /\ pixel = NotInUse /\ calls = NotInUse /\ dat = NotInUse

EditParams ==
    \/ \E value \in AreaChoices : set("areaKm", value)
    \/ \E value \in ResolutionChoices : set("outputPx", value)

Step1Settles ==
    \E k \in DOMAIN app.runs :
        \/ GenerateResolves(k)
        \/ \E message \in FetchErrors : GenerateRejects(k, message)
        \/ PreviewResolves(k)
        \/ \E message \in PreviewErrors : PreviewRejects(k, message)

AppNext ==
    \/ EditParams
    \/ ClickStep1
    \/ Step1Settles
    \/ ClickStep2
    \/ ClickDownloadDat
    \/ RunFrame
    \/ WorkerFinishes
    \/ FireError

SpecApp == AppSpecInit /\ [][AppNext]_allVars

\* C21: the Step 1 handler runs only when neither fetching nor compiling
\* is in progress and the Step 2 handler only when Step 1 is done as well;
\* in every state at most one handleStep1 invocation (hence at most one
\* generateHeightmap invocation) is in flight, and isFetching and
\* isCompiling are not both true.
C21_PipelineSerialized ==
    /\ [](/\ Len(app.runs) <= 1
          /\ ~(app.isFetching /\ hook.isCompiling)
          /\ app.isFetching <=> app.runs # <<>>)
    /\ [][ /\ Len(app'.runs) > Len(app.runs)
              => ~app.isFetching /\ ~hook.isCompiling /\ app.runs = <<>>
           /\ hook'.nextRunId > hook.nextRunId
              => app.step1Done /\ ~app.isFetching /\ ~hook.isCompiling
         ]_allVars

\* A compile run is in progress and, with Step 1 disabled, nothing is
\* fetched; an earlier Step 1 has run to its end.
C21_Witness ==
    /\ hook.isCompiling /\ ~Step1Enabled /\ ~Step2Enabled
    /\ app.step1Done /\ app.runs = <<>>

\* C22: after a Step 1 run that failed, in generateHeightmap or in the
\* preview encoding, fetchError holds the message (until the next run
\* clears it), isFetching and step1Done are false and neither a heightmap
\* nor a preview is stored; and in every state step1Done implies a stored
\* heightmap and no fetchError.
C22_FailedRunLeavesNothing ==
    /\ app.fetchError # NullText
       => /\ ~app.isFetching /\ ~app.step1Done
          /\ app.heightmapResult = NullData /\ app.previewUrl = NullData
    /\ app.step1Done => app.heightmapResult # NullData /\ app.fetchError = NullText

\* C23: every request that Step 2 hands to compile() carries the
\* parameters its heightmap was generated with: params.outputPx is the
\* heightmap's width and height, so that the surface's span width - 1 is
\* generateScad's gridSpan and the footprint is modelMm, and params.areaKm
\* is the area the heightmap covers.
C23_RequestMatchesHeightmap ==
    \A f \in frames :
        /\ f.request.params.outputPx = f.request.width
        /\ f.request.params.outputPx = f.request.height
        /\ FootprintTimesSpan(f.request.params, f.request.width)
              = f.request.params.modelMm * gridSpan(f.request.params)
        /\ f.request.params.areaKm = f.request.heightmap[2]

\* ---------------------------------------------------------------------
\* parseDatHeightmap: reading a .dat text back into a heightmap.
\* ---------------------------------------------------------------------

\* Texts other than written heightmaps are drawn from the characters of
\* DatAlphabet up to the length MaxTextLen: a digit, a letter, the space and
\* the newline.
MaxTextLen == 4
DatAlphabet == {"1", "x", " ", "\n"}

IsSpace(c) == c = " "

\* String.prototype.trim.
Trim(text) ==
    IF \A i \in 1..Len(text) : IsSpace(text[i]) THEN <<>>
    ELSE LET first == CHOOSE i \in 1..Len(text) :
                         ~IsSpace(text[i]) /\ \A j \in 1..(i - 1) : IsSpace(text[j])
             last == CHOOSE i \in 1..Len(text) :
                         ~IsSpace(text[i]) /\ \A j \in (i + 1)..Len(text) : IsSpace(text[j])
         IN SubSeq(text, first, last)

\* split(/\s+/): the pieces between the runs of white space.
RECURSIVE SplitSpaces(_)
SplitSpaces(text) ==
    IF \A i \in 1..Len(text) : ~IsSpace(text[i]) THEN <<text>>
    ELSE LET i == CHOOSE j \in 1..Len(text) :
                     IsSpace(text[j]) /\ \A k \in 1..(j - 1) : ~IsSpace(text[k])
             after == {j \in (i + 1)..Len(text) : ~IsSpace(text[j])}
         IN IF after = {} THEN <<SubSeq(text, 1, i - 1), <<>>>>
            ELSE <<SubSeq(text, 1, i - 1)>>
                    \o SplitSpaces(SubSeq(text, SetMin(after), Len(text)))

\* Number(text) for a text without sign, point, exponent or prefix: 0 for
\* the empty text, the value of a decimal numeral, NaN otherwise.
NumberOf(text) ==
    IF text = <<>> THEN 0
    ELSE IF IsDecimal(text) THEN ParseDecimal(text)
    ELSE NaN

NonEmpty(text) == text # <<>>

\* The rows of a content: its lines, trimmed, without the empty ones.
DatRows(content) ==
    LET split == Split(content, "\n")
    IN SelectSeq([k \in 1..Len(split) |-> Trim(split[k])], NonEmpty)

Thrown(message) == [ok |-> FALSE, message |-> message]

\* Variant of parseDatHeightmap: the rows stored in the order of the text.
parseDatHeightmap_NoFlip(content) ==
    LET rowTexts == DatRows(content)
    IN  IF Len(rowTexts) = 0 THEN Thrown(<<"Demo heightmap is empty">>)
        ELSE
        LET w == Len(SplitSpaces(rowTexts[1]))
            h == Len(rowTexts)
            cells(y) == SplitSpaces(rowTexts[y + 1])
            BadCount(y) == Len(cells(y)) # w
            BadCells(y) == {x \in 0..(w - 1) : ~IsFiniteNum(NumberOf(cells(y)[x + 1]))}
            bad == {y \in 0..(h - 1) : BadCount(y) \/ BadCells(y) # {}}
            value(y, x) == Max(0, Min(255, Round(NumberOf(cells(y)[x + 1]), 1)))
        IN  IF w = 0 THEN Thrown(<<"Demo heightmap has no columns">>)
            ELSE IF bad # {}
            THEN LET y == SetMin(bad)
                 IN  IF BadCount(y)
                     THEN Thrown(<<"inconsistent column count", y + 1>>)
                     ELSE Thrown(<<"invalid value", y + 1, SetMin(BadCells(y)) + 1>>)
            ELSE LET hm == [i \in 0..(w * h - 1) |-> value(i \div w, i % w)]
                 IN [ok |-> TRUE, heightmap |-> hm, width |-> w, height |-> h,
                     elevMin |-> SetMin({hm[i] : i \in DOMAIN hm}),
                     elevMax |-> SetMax({hm[i] : i \in DOMAIN hm})]

\* parseDatHeightmap(content): the row y of the text goes to the image row
\* height - 1 - y; the first row with a wrong column count or a value that
\* is not finite throws.
parseDatHeightmap(content) ==
    LET rowTexts == DatRows(content)
    IN  IF Len(rowTexts) = 0 THEN Thrown(<<"Demo heightmap is empty">>)
        ELSE
        LET w == Len(SplitSpaces(rowTexts[1]))
            h == Len(rowTexts)
            cells(y) == SplitSpaces(rowTexts[y + 1])
            BadCount(y) == Len(cells(y)) # w
            BadCells(y) == {x \in 0..(w - 1) : ~IsFiniteNum(NumberOf(cells(y)[x + 1]))}
            bad == {y \in 0..(h - 1) : BadCount(y) \/ BadCells(y) # {}}
            value(y, x) == Max(0, Min(255, Round(NumberOf(cells(y)[x + 1]), 1)))
        IN  IF w = 0 THEN Thrown(<<"Demo heightmap has no columns">>)
            ELSE IF bad # {}
            THEN LET y == SetMin(bad)
                 IN  IF BadCount(y)
                     THEN Thrown(<<"inconsistent column count", y + 1>>)
                     ELSE Thrown(<<"invalid value", y + 1, SetMin(BadCells(y)) + 1>>)
            ELSE LET hm == [i \in 0..(w * h - 1) |-> value(h - 1 - (i \div w), i % w)]
                 IN [ok |-> TRUE, heightmap |-> hm, width |-> w, height |-> h,
                     elevMin |-> SetMin({hm[i] : i \in DOMAIN hm}),
                     elevMax |-> SetMax({hm[i] : i \in DOMAIN hm})]

\* All texts over DatAlphabet of length 1..MaxTextLen.
Texts == UNION {[1..n -> DatAlphabet] : n \in 1..MaxTextLen}

NoSource == [heightmap |-> <<>>, width |-> 0, height |-> 0]

ParseInit ==
    /\ pd \in { [stage |-> "heightmap", source |-> src, content |-> <<>>,
                 outcome |-> NullData] :
                   src \in UNION { { [heightmap |-> hm, width |-> w, height |-> h] :
                                       hm \in [0..(w * h - 1) -> GraySamples] } :
                                   w \in 1..MaxDatSide, h \in 1..MaxDatSide } }
            \cup { [stage |-> "content", source |-> NoSource, content |-> text,
                    outcome |-> NullData] : text \in Texts }
    /\ app = NotInUse /\ hook = NotInUse /\ workers = NotInUse /\ frames = NotInUse
    /\ event = NotInUse /\ wk = NotInUse
    /\ PipelineIdle
    /\ proj = NotInUse /\ pixel = NotInUse /\ calls = NotInUse /\ dat = NotInUse

parseRest == <<vars, proj, pixel, calls, dat, app, hook, workers, frames, event, wk>>

\* heightmapToDat of the source heightmap.
WriteContent ==
    /\ pd.stage = "heightmap"
    /\ pd' = [pd EXCEPT !.stage = "content",
                        !.content = heightmapToDat(pd.source.heightmap, pd.source.width,
                                                   pd.source.height)]
    /\ UNCHANGED parseRest

\* parseDatHeightmap of the content.
ParseContent ==
    /\ pd.stage = "content"
    /\ pd' = [pd EXCEPT !.stage = "parsed", !.outcome = parseDatHeightmap(pd.content)]
    /\ UNCHANGED parseRest

ParseNext == WriteContent \/ ParseContent

SpecParse == ParseInit /\ [][ParseNext]_allVars

\* The number of values in a line: the places where a character other than
\* a space begins the line or follows a space.
ColumnCount(line) ==
    Cardinality({i \in 1..Len(line) :
                    ~IsSpace(line[i]) /\ (i = 1 \/ IsSpace(line[i - 1]))})

\* The column counts of the lines that hold a value.
ColumnCounts(content) ==
    LET split == Split(content, "\n")
    IN {ColumnCount(split[k]) : k \in 1..Len(split)} \ {0}

HasLetter(content) == \E i \in 1..Len(content) : content[i] = "x"

\* C30: parsing the text that heightmapToDat writes for a heightmap of
\* width >= 1 and height >= 1 with values in 0..255 gives back the width,
\* the height and every cell of the heightmap; and a text whose lines hold
\* different numbers of values, or that holds a value that is not a number,
\* is rejected with an error.
C30_DatRoundTrip ==
    pd.stage = "parsed" =>
        /\ pd.source # NoSource
           => /\ pd.outcome.ok
              /\ pd.outcome.width = pd.source.width
              /\ pd.outcome.height = pd.source.height
              /\ pd.outcome.heightmap = pd.source.heightmap
        /\ Cardinality(ColumnCounts(pd.content)) > 1 \/ HasLetter(pd.content)
           => ~pd.outcome.ok

\* A heightmap of two rows that differ came back from its text cell for
\* cell.
C30_Witness ==
    /\ pd.stage = "parsed" /\ pd.outcome.ok
    /\ pd.source.width = 2 /\ pd.source.height = 2
    /\ pd.source.heightmap = [i \in 0..3 |-> <<0, 42, 255, 0>>[i + 1]]
    /\ pd.outcome.heightmap = pd.source.heightmap
    /\ pd.content = <<"2", "5", "5", " ", "0", "\n", "0", " ", "4", "2", "\n">>

====
